---- MODULE Spec2Model ----
(***************************************************************************)
(* combo_vec: ReArr<T, N> (re_arr.rs), a fixed array of N Option<T> slots  *)
(* with a length, and ComboVec<T, N> (combo_vec.rs), a ReArr<T, N> followed *)
(* by a Vec<T> that takes the elements beyond the N-th.                    *)
(*                                                                         *)
(* Every method is an operator from the receiver (and the arguments) to a  *)
(* result [self, ret, panic]: the receiver as the call leaves it, the      *)
(* returned value, and whether the call panicked.  A panicking call leaves *)
(* in self whatever it had written before the panic.  The actions apply    *)
(* the operators to the object under test; a panic ends the run.           *)
(*                                                                         *)
(* Option<T> is encoded in the naturals: None is 0, Some(v) is v >= 1.     *)
(* Array slots are indexed from 0 as in the source; a Vec's buffer is a    *)
(* TLA+ sequence, so vec[i] of the source is buf[i + 1].                   *)
(***************************************************************************)
EXTENDS Integers, Sequences, FiniteSets, TLC

\* Largest inline capacity N (the const generic) explored.
MaxN == 2
\* Largest overflow (heap) length the actions let the Vec reach.
MaxHeap == 2
\* Element values are 1..MaxVal.
MaxVal == 2

None == 0

VARIABLES
    N,          \* the const generic N of the object under test
    kind,       \* which type is under test: "ComboVec" or "ReArr"
    cv,         \* the ComboVec<T, N>: [arr: ReArr, vec: Vec]
    ra,         \* the ReArr<T, N>: [arr: [0..N-1 -> Option<T>], arr_len]
    list,       \* a plain list driven in lockstep with cv
    op,         \* name of the last call made
    arg,        \* its index or length argument, the number of elements of
                \* an extend (0 when the call has none)
    panicked    \* whether the last call panicked

vars == <<N, kind, cv, ra, list, op, arg, panicked>>

Vals == 1..MaxVal
Capacities == 0..MaxN

Min(a, b) == IF a < b THEN a ELSE b
Max(a, b) == IF a > b THEN a ELSE b

\* The result of a call.
Res(self, ret, panic) == [self |-> self, ret |-> ret, panic |-> panic]

(***************************************************************************)
(* alloc::vec::Vec<T>, as far as combo_vec.rs uses it: the buffer and its  *)
(* allocated capacity.                                                     *)
(***************************************************************************)
Vec_new == [buf |-> <<>>, cap |-> 0]

\* Growth of the allocation when `additional` more elements must fit:
\* amortised doubling, at least 4 elements at the first allocation.
Vec_reserve(v, additional) ==
    IF additional > v.cap - Len(v.buf)
    THEN [v EXCEPT !.cap = Max(Max(2 * v.cap, Len(v.buf) + additional), 4)]
    ELSE v

Vec_push(v, val) ==
    LET g == IF Len(v.buf) = v.cap THEN Vec_reserve(v, 1) ELSE v
    IN  [g EXCEPT !.buf = Append(v.buf, val)]

Vec_pop(v) ==
    IF Len(v.buf) = 0
    THEN Res(v, None, FALSE)
    ELSE Res([v EXCEPT !.buf = SubSeq(v.buf, 1, Len(v.buf) - 1)],
             v.buf[Len(v.buf)], FALSE)

Vec_get(v, i) == IF i < Len(v.buf) THEN v.buf[i + 1] ELSE None

\* vec[i]: panics if i is out of bounds.
Vec_index(v, i) ==
    IF i >= Len(v.buf) THEN Res(v, None, TRUE) ELSE Res(v, v.buf[i + 1], FALSE)

Vec_first(v) == IF Len(v.buf) = 0 THEN None ELSE v.buf[1]

Vec_last(v) == IF Len(v.buf) = 0 THEN None ELSE v.buf[Len(v.buf)]

Vec_truncate(v, len) ==
    IF len > Len(v.buf) THEN v ELSE [v EXCEPT !.buf = SubSeq(v.buf, 1, len)]

Vec_clear(v) == [v EXCEPT !.buf = <<>>]

\* Panics if index is out of bounds.
Vec_remove(v, index) ==
    IF index >= Len(v.buf)
    THEN Res(v, None, TRUE)
    ELSE Res([v EXCEPT !.buf = SubSeq(v.buf, 1, index)
                                 \o SubSeq(v.buf, index + 2, Len(v.buf))],
             v.buf[index + 1], FALSE)

\* Panics if index is out of bounds; the last element takes the place.
Vec_swap_remove(v, index) ==
    IF index >= Len(v.buf)
    THEN Res(v, None, TRUE)
    ELSE LET n == Len(v.buf)
             moved == [v.buf EXCEPT ![index + 1] = v.buf[n]]
         IN  Res([v EXCEPT !.buf = SubSeq(moved, 1, n - 1)],
                 v.buf[index + 1], FALSE)

Vec_resize(v, new_len, val) ==
    IF new_len > Len(v.buf)
    THEN LET g == Vec_reserve(v, new_len - Len(v.buf))
         IN  [g EXCEPT !.buf = [i \in 1..new_len |->
                                   IF i <= Len(v.buf) THEN v.buf[i] ELSE val]]
    ELSE Vec_truncate(v, new_len)

\* The k-th call (from 0) of a producer p, a closure FnMut() -> T that
\* returns p.first and then steps through the values by p.step: a constant
\* closure when p.step is 0, a counter when it is 1.
Call(p, k) == ((p.first - 1 + p.step * k) % MaxVal) + 1

\* resize_with calls f once per added element; k calls were made before.
Vec_resize_with(v, new_len, p, k) ==
    IF new_len > Len(v.buf)
    THEN LET g == Vec_reserve(v, new_len - Len(v.buf))
         IN  [self |-> [g EXCEPT !.buf = [i \in 1..new_len |->
                            IF i <= Len(v.buf) THEN v.buf[i]
                            ELSE Call(p, k + (i - Len(v.buf) - 1))]],
              calls |-> k + (new_len - Len(v.buf))]
    ELSE [self |-> Vec_truncate(v, new_len), calls |-> k]

(***************************************************************************)
(* ReArr<T, N>                                                    re_arr.rs *)
(***************************************************************************)
ReArr_new == [arr |-> [i \in 0..N-1 |-> None], arr_len |-> 0]

ReArr_from_arr(a) == [arr |-> a, arr_len |-> N]

\* The loop of from_arr_and_len: the index of the first None from `from`.
RECURSIVE FirstNone(_, _)
FirstNone(a, from) ==
    IF from < N /\ a[from] # None THEN FirstNone(a, from + 1) ELSE from

\* ReArr_from_arr_and_len counting the Some slots of the whole array.
ReArr_from_arr_and_len_count(a) ==
    [arr |-> a, arr_len |-> Cardinality({i \in 0..N-1 : a[i] # None})]

ReArr_from_arr_and_len(a) == [arr |-> a, arr_len |-> FirstNone(a, 0)]

ReArr_len(self) == self.arr_len

ReArr_capacity(self) == N

ReArr_is_empty(self) == self.arr_len = 0

\* ReArr_push counting the element before it stores it.
ReArr_push_len_first(self, val) ==
    IF self.arr_len >= N
    THEN Res([self EXCEPT !.arr_len = self.arr_len + 1], None, TRUE)
    ELSE Res([arr |-> [self.arr EXCEPT ![self.arr_len] = val],
              arr_len |-> self.arr_len + 1], None, FALSE)

\* self.arr[self.arr_len] = Some(val) panics when arr_len is not an index.
ReArr_push(self, val) ==
    IF self.arr_len >= N
    THEN Res(self, None, TRUE)
    ELSE Res([arr |-> [self.arr EXCEPT ![self.arr_len] = val],
              arr_len |-> self.arr_len + 1], None, FALSE)

ReArr_pop(self) ==
    IF ReArr_is_empty(self)
    THEN Res(self, None, FALSE)
    ELSE LET n == self.arr_len - 1
         IN  Res([arr |-> [self.arr EXCEPT ![n] = None], arr_len |-> n],
                 self.arr[n], FALSE)

\* self.arr.get(idx).and_then(|item| item.as_ref())
ReArr_get(self, idx) == IF idx < N THEN self.arr[idx] ELSE None

ReArr_get_mut(self, idx) == IF idx < N THEN self.arr[idx] ELSE None

\* self.arr[len..] panics when len > N.
ReArr_truncate(self, len) ==
    IF len > N
    THEN Res(self, None, TRUE)
    ELSE Res([arr |-> [i \in 0..N-1 |-> IF i >= len THEN None ELSE self.arr[i]],
              arr_len |-> Min(self.arr_len, len)], None, FALSE)

ReArr_clear(self) == [arr |-> [i \in 0..N-1 |-> None], arr_len |-> 0]

ReArr_first(self) == IF N = 0 THEN None ELSE self.arr[0]

ReArr_last(self) ==
    IF ReArr_is_empty(self) THEN None ELSE self.arr[self.arr_len - 1]

\* self.arr.iter().flatten(): the Some slots of the whole array, in order.
RECURSIVE Flatten(_, _)
Flatten(a, from) ==
    IF from >= N THEN <<>>
    ELSE IF a[from] = None THEN Flatten(a, from + 1)
    ELSE <<a[from]>> \o Flatten(a, from + 1)

ReArr_iter(self) == Flatten(self.arr, 0)

\* self.arr.iter_mut().flatten()
ReArr_iter_mut(self) == Flatten(self.arr, 0)

\* self.arr.into_iter().flatten()
ReArr_into_iter(self) == Flatten(self.arr, 0)

\* ReArr_resize asserting new_len < N.
ReArr_resize_lt(self, new_len, val) ==
    IF new_len >= N
    THEN Res(self, None, TRUE)
    ELSE Res([arr |-> [i \in 0..N-1 |->
                          IF new_len > self.arr_len
                          THEN IF i >= self.arr_len /\ i < new_len
                               THEN val ELSE self.arr[i]
                          ELSE IF i >= new_len THEN None ELSE self.arr[i]],
              arr_len |-> new_len], None, FALSE)

\* assert!(new_len <= N) comes before any write.
ReArr_resize(self, new_len, val) ==
    IF new_len > N
    THEN Res(self, None, TRUE)
    ELSE Res([arr |-> [i \in 0..N-1 |->
                          IF new_len > self.arr_len
                          THEN IF i >= self.arr_len /\ i < new_len
                               THEN val ELSE self.arr[i]
                          ELSE IF i >= new_len THEN None ELSE self.arr[i]],
              arr_len |-> new_len], None, FALSE)

\* fill(Some(f())): f is called once and its result fills every new slot.
ReArr_resize_with(self, new_len, p, k) ==
    IF new_len > N
    THEN [self |-> self, panic |-> TRUE, calls |-> k]
    ELSE IF new_len > self.arr_len
    THEN [self |-> [arr |-> [i \in 0..N-1 |->
                               IF i >= self.arr_len /\ i < new_len
                               THEN Call(p, k) ELSE self.arr[i]],
                    arr_len |-> new_len],
          panic |-> FALSE, calls |-> k + 1]
    ELSE [self |-> [arr |-> [i \in 0..N-1 |->
                               IF i >= new_len THEN None ELSE self.arr[i]],
                    arr_len |-> new_len],
          panic |-> FALSE, calls |-> k]

\* ReArr_remove copying each slot down instead of taking it: the last
\* occupied slot keeps its value.
ReArr_remove_no_take(self, index) ==
    IF index >= N THEN Res(self, None, TRUE)
    ELSE IF self.arr[index] = None THEN Res(self, None, TRUE)
    ELSE LET last == self.arr_len - 1
         IN  Res([arr |-> [i \in 0..N-1 |->
                             IF i >= index /\ i < last THEN self.arr[i + 1]
                             ELSE self.arr[i]],
                  arr_len |-> last], self.arr[index], FALSE)

\* ReArr_remove returning quietly when there is nothing at index.
ReArr_remove_unchecked(self, index) ==
    IF index >= N THEN Res(self, None, FALSE)
    ELSE IF self.arr[index] = None THEN Res(self, None, FALSE)
    ELSE IF self.arr_len = 0
    THEN Res([self EXCEPT !.arr[index] = None], None, TRUE)
    ELSE LET last == self.arr_len - 1
         IN  Res([arr |-> [i \in 0..N-1 |->
                             IF i >= index /\ i < last THEN self.arr[i + 1]
                             ELSE IF i = last /\ index < last THEN None
                             ELSE IF i = index THEN None
                             ELSE self.arr[i]],
                  arr_len |-> last], self.arr[index], FALSE)

\* arr[index].take().unwrap() panics on an index >= N and on an empty slot
\* (take leaves an empty slot empty); arr_len - 1 underflows when arr_len
\* is 0, after the slot was taken.
ReArr_remove(self, index) ==
    IF index >= N THEN Res(self, None, TRUE)
    ELSE IF self.arr[index] = None THEN Res(self, None, TRUE)
    ELSE IF self.arr_len = 0
    THEN Res([self EXCEPT !.arr[index] = None], None, TRUE)
    ELSE LET last == self.arr_len - 1
         IN  Res([arr |-> [i \in 0..N-1 |->
                             IF i >= index /\ i < last THEN self.arr[i + 1]
                             ELSE IF i = last /\ index < last THEN None
                             ELSE IF i = index THEN None
                             ELSE self.arr[i]],
                  arr_len |-> last], self.arr[index], FALSE)

\* ReArr_swap_remove reading the last element without popping it.
ReArr_swap_remove_no_pop(self, index) ==
    LET last == ReArr_last(self)
    IN  IF last = None THEN Res(self, None, TRUE)
        ELSE IF index >= N THEN Res(self, None, TRUE)
        ELSE LET old == self.arr[index]
                 put == [self EXCEPT !.arr[index] = last]
             IN  Res(put, old, old = None)

\* let last_value = self.pop().unwrap();
\* self.arr[index].replace(last_value).unwrap()
ReArr_swap_remove(self, index) ==
    LET popped == ReArr_pop(self)
    IN  IF popped.ret = None THEN Res(popped.self, None, TRUE)
        ELSE IF index >= N THEN Res(popped.self, None, TRUE)
        ELSE LET old == popped.self.arr[index]
                 put == [popped.self EXCEPT !.arr[index] = popped.ret]
             IN  Res(put, old, old = None)

\* self.arr[idx].as_ref().unwrap(): panics on an index >= N and on an empty
\* slot.
ReArr_index(self, idx) ==
    IF idx >= N THEN Res(self, None, TRUE)
    ELSE Res(self, self.arr[idx], self.arr[idx] = None)

\* self.arr[idx].as_mut().unwrap()
ReArr_index_mut(self, idx) ==
    IF idx >= N THEN Res(self, None, TRUE)
    ELSE Res(self, self.arr[idx], self.arr[idx] = None)

\* self[idx] = val
ReArr_index_mut_write(self, idx, val) ==
    IF ReArr_index_mut(self, idx).panic THEN Res(self, None, TRUE)
    ELSE Res([self EXCEPT !.arr[idx] = val], None, FALSE)

\* ReArr_extend checking the room first: a sequence that does not fit
\* panics before any of its elements is pushed.
ReArr_extend_all_or_nothing(self, seq) ==
    IF Len(seq) > N - self.arr_len THEN Res(self, None, TRUE)
    ELSE Res([arr |-> [i \in 0..N-1 |->
                          IF i >= self.arr_len /\ i < self.arr_len + Len(seq)
                          THEN seq[i - self.arr_len + 1] ELSE self.arr[i]],
              arr_len |-> self.arr_len + Len(seq)], None, FALSE)

\* iter.into_iter().for_each(|x| self.push(x)): stops at the first panic.
RECURSIVE ReArr_extend(_, _)
ReArr_extend(self, seq) ==
    IF seq = <<>> THEN Res(self, None, FALSE)
    ELSE LET r == ReArr_push(self, Head(seq))
         IN  IF r.panic THEN r ELSE ReArr_extend(r.self, Tail(seq))

\* The loop of from_iter_ref, `count` turns of it left: each turn asks the
\* iterator for its next item and pushes it, and the loop ends when the
\* iterator has none. `iter` is what the iterator has yet to yield.
RECURSIVE FromIterLoop(_, _, _)
FromIterLoop(re_arr, iter, count) ==
    IF count = 0 \/ iter = <<>>
    THEN [self |-> re_arr, iter |-> iter, panic |-> FALSE]
    ELSE LET r == ReArr_push(re_arr, Head(iter))
         IN  IF r.panic
             THEN [self |-> r.self, iter |-> Tail(iter), panic |-> TRUE]
             ELSE FromIterLoop(r.self, Tail(iter), count - 1)

\* ReArr_from_iter_ref pushing every item the iterator yields.
ReArr_from_iter_ref_all(iter) ==
    LET r == ReArr_extend(ReArr_new, iter)
    IN  [self |-> r.self, iter |-> <<>>, panic |-> r.panic]

ReArr_from_iter_ref(iter) == FromIterLoop(ReArr_new, iter, N)

\* impl FromIterator for ReArr
ReArr_from_iter(iter) == ReArr_from_iter_ref(iter)

(***************************************************************************)
(* ComboVec<T, N>                                              combo_vec.rs *)
(***************************************************************************)
ComboVec_new == [arr |-> ReArr_new, vec |-> Vec_new]

ComboVec_from_arr(a) == [arr |-> ReArr_from_arr(a), vec |-> Vec_new]

ComboVec_from_arr_and_len(a) ==
    [arr |-> ReArr_from_arr_and_len(a), vec |-> Vec_new]

ComboVec_stack_len(self) == ReArr_len(self.arr)

ComboVec_heap_len(self) == Len(self.vec.buf)

ComboVec_len(self) == ComboVec_stack_len(self) + ComboVec_heap_len(self)

\* ComboVec_spilled asking whether the overflow buffer has an allocation.
ComboVec_spilled_capacity(self) == self.vec.cap > 0

ComboVec_spilled(self) == ComboVec_heap_len(self) > 0

\* ComboVec_is_empty asking the inline array only.
ComboVec_is_empty_inline(self) == ReArr_is_empty(self.arr)

ComboVec_is_empty(self) == ComboVec_len(self) = 0

ComboVec_stack_capacity(self) == N

ComboVec_heap_capacity(self) == self.vec.cap

ComboVec_capacity(self) ==
    ComboVec_stack_capacity(self) + ComboVec_heap_capacity(self)

\* ComboVec_reserve replacing the overflow buffer by a fresh allocation
\* (Vec::with_capacity) instead of growing the one in use.
ComboVec_reserve_fresh(self, additional) ==
    [self EXCEPT !.vec = [buf |-> <<>>, cap |-> additional]]

ComboVec_reserve(self, additional) ==
    [self EXCEPT !.vec = Vec_reserve(self.vec, additional)]

\* ComboVec_push comparing with <= : the inline branch is taken once too often.
ComboVec_push_le(self, val) ==
    IF ComboVec_len(self) <= N
    THEN LET r == ReArr_push(self.arr, val)
         IN  Res([self EXCEPT !.arr = r.self], None, r.panic)
    ELSE Res([self EXCEPT !.vec = Vec_push(self.vec, val)], None, FALSE)

\* ComboVec_push spilling one element early.
ComboVec_push_early(self, val) ==
    IF ComboVec_len(self) + 1 < N
    THEN LET r == ReArr_push(self.arr, val)
         IN  Res([self EXCEPT !.arr = r.self], None, r.panic)
    ELSE Res([self EXCEPT !.vec = Vec_push(self.vec, val)], None, FALSE)

ComboVec_push(self, val) ==
    IF ComboVec_len(self) < N
    THEN LET r == ReArr_push(self.arr, val)
         IN  Res([self EXCEPT !.arr = r.self], None, r.panic)
    ELSE Res([self EXCEPT !.vec = Vec_push(self.vec, val)], None, FALSE)

\* ComboVec_pop taking from the inline array while it has elements.
ComboVec_pop_arr_first(self) ==
    IF self.arr.arr_len # 0
    THEN LET r == ReArr_pop(self.arr)
         IN  Res([self EXCEPT !.arr = r.self], r.ret, FALSE)
    ELSE LET r == Vec_pop(self.vec)
         IN  Res([self EXCEPT !.vec = r.self], r.ret, FALSE)

ComboVec_pop(self) ==
    IF Len(self.vec.buf) = 0
    THEN LET r == ReArr_pop(self.arr)
         IN  Res([self EXCEPT !.arr = r.self], r.ret, FALSE)
    ELSE LET r == Vec_pop(self.vec)
         IN  Res([self EXCEPT !.vec = r.self], r.ret, FALSE)

\* ComboVec_get indexing the Vec with the logical index.
ComboVec_get_no_offset(self, idx) ==
    IF idx < N THEN ReArr_get(self.arr, idx) ELSE Vec_get(self.vec, idx)

ComboVec_get(self, idx) ==
    IF idx < N THEN ReArr_get(self.arr, idx) ELSE Vec_get(self.vec, idx - N)

ComboVec_get_mut(self, idx) ==
    IF idx < N THEN ReArr_get_mut(self.arr, idx)
    ELSE Vec_get(self.vec, idx - N)

\* if let Some(x) = self.get_mut(idx) { *x = val }
ComboVec_get_mut_write(self, idx, val) ==
    IF ComboVec_get_mut(self, idx) = None THEN self
    ELSE IF idx < N THEN [self EXCEPT !.arr.arr[idx] = val]
    ELSE [self EXCEPT !.vec.buf[idx - N + 1] = val]

\* ComboVec_truncate leaving the Vec alone when it cuts into the array.
ComboVec_truncate_keeps_vec(self, len) ==
    IF len > ComboVec_len(self) THEN Res(self, None, FALSE)
    ELSE IF len >= N
    THEN Res([self EXCEPT !.vec = Vec_truncate(self.vec, len - N)], None, FALSE)
    ELSE LET r == ReArr_truncate(self.arr, len)
         IN  Res([self EXCEPT !.arr = r.self], None, r.panic)

\* ComboVec_truncate truncating the Vec to the logical length.
ComboVec_truncate_no_offset(self, len) ==
    IF len > ComboVec_len(self) THEN Res(self, None, FALSE)
    ELSE IF len >= N
    THEN Res([self EXCEPT !.vec = Vec_truncate(self.vec, len)], None, FALSE)
    ELSE LET r == ReArr_truncate(self.arr, len)
         IN  IF r.panic THEN Res([self EXCEPT !.arr = r.self], None, TRUE)
             ELSE Res([arr |-> r.self, vec |-> Vec_clear(self.vec)],
                      None, FALSE)

\* ComboVec_truncate clearing the Vec also when the cut is in the Vec.
ComboVec_truncate_clears_vec(self, len) ==
    IF len > ComboVec_len(self) THEN Res(self, None, FALSE)
    ELSE IF len >= N
    THEN Res([self EXCEPT !.vec = Vec_clear(self.vec)], None, FALSE)
    ELSE LET r == ReArr_truncate(self.arr, len)
         IN  IF r.panic THEN Res([self EXCEPT !.arr = r.self], None, TRUE)
             ELSE Res([arr |-> r.self, vec |-> Vec_clear(self.vec)],
                      None, FALSE)

ComboVec_truncate(self, len) ==
    IF len > ComboVec_len(self) THEN Res(self, None, FALSE)
    ELSE IF len >= N
    THEN Res([self EXCEPT !.vec = Vec_truncate(self.vec, len - N)], None, FALSE)
    ELSE LET r == ReArr_truncate(self.arr, len)
         IN  IF r.panic THEN Res([self EXCEPT !.arr = r.self], None, TRUE)
             ELSE Res([arr |-> r.self, vec |-> Vec_clear(self.vec)],
                      None, FALSE)

\* ComboVec_clear clearing the inline array only.
ComboVec_clear_arr_only(self) == [self EXCEPT !.arr = ReArr_clear(self.arr)]

ComboVec_clear(self) ==
    [arr |-> ReArr_clear(self.arr), vec |-> Vec_clear(self.vec)]

\* ComboVec_first without the N == 0 branch: the inline array is asked even
\* when it has no slots.
ComboVec_first_inline(self) == ReArr_first(self.arr)

ComboVec_first(self) ==
    IF N = 0 THEN Vec_first(self.vec) ELSE ReArr_first(self.arr)

\* ComboVec_last asking the inline array only.
ComboVec_last_inline(self) ==
    IF N = 0 THEN Vec_last(self.vec) ELSE ReArr_last(self.arr)

ComboVec_last(self) ==
    IF N = 0 THEN Vec_last(self.vec)
    ELSE IF Vec_last(self.vec) # None THEN Vec_last(self.vec)
    ELSE ReArr_last(self.arr)

\* ComboVec_iter chaining the Vec before the inline array.
ComboVec_iter_vec_first(self) == self.vec.buf \o ReArr_iter(self.arr)

\* self.arr.iter().chain(self.vec.iter())
ComboVec_iter(self) == ReArr_iter(self.arr) \o self.vec.buf

\* self.arr.iter_mut().chain(self.vec.iter_mut())
ComboVec_iter_mut(self) == ReArr_iter_mut(self.arr) \o self.vec.buf

\* self.arr.into_iter().chain(self.vec)
ComboVec_into_iter(self) == ReArr_into_iter(self.arr) \o self.vec.buf

\* ComboVec_to_vec cloning the Vec only.
ComboVec_to_vec_heap_only(self) == self.vec.buf

\* self.iter().cloned().collect()
ComboVec_to_vec(self) == ComboVec_iter(self)

\* ComboVec_extend with a bulk path: a sequence that does not fit in the
\* inline array goes to the Vec whole.
ComboVec_extend_bulk(self, seq) ==
    IF ComboVec_len(self) + Len(seq) > N
    THEN Res([self EXCEPT !.vec =
                 [buf |-> self.vec.buf \o seq,
                  cap |-> Vec_reserve(self.vec, Len(seq)).cap]], None, FALSE)
    ELSE Res([self EXCEPT !.arr =
                 [arr |-> [i \in 0..N-1 |->
                             IF i >= self.arr.arr_len
                                /\ i < self.arr.arr_len + Len(seq)
                             THEN seq[i - self.arr.arr_len + 1]
                             ELSE self.arr.arr[i]],
                  arr_len |-> self.arr.arr_len + Len(seq)]], None, FALSE)

RECURSIVE ComboVec_extend(_, _)
ComboVec_extend(self, seq) ==
    IF seq = <<>> THEN Res(self, None, FALSE)
    ELSE LET r == ComboVec_push(self, Head(seq))
         IN  IF r.panic THEN r ELSE ComboVec_extend(r.self, Tail(seq))

\* ComboVec_resize without the top-up of the inline array.
ComboVec_resize_no_fill(self, new_len, val) ==
    IF new_len >= N
    THEN Res([self EXCEPT !.vec = Vec_resize(self.vec, new_len - N, val)],
             None, FALSE)
    ELSE LET r == ReArr_resize(self.arr, new_len, val)
         IN  IF r.panic THEN Res([self EXCEPT !.arr = r.self], None, TRUE)
             ELSE Res([arr |-> r.self, vec |-> Vec_clear(self.vec)],
                      None, FALSE)

ComboVec_resize(self, new_len, val) ==
    IF new_len >= N
    THEN LET r == IF ComboVec_len(self) < N
                  THEN ReArr_resize(self.arr, N, val)
                  ELSE Res(self.arr, None, FALSE)
         IN  IF r.panic THEN Res([self EXCEPT !.arr = r.self], None, TRUE)
             ELSE Res([arr |-> r.self,
                       vec |-> Vec_resize(self.vec, new_len - N, val)],
                      None, FALSE)
    ELSE LET r == ReArr_resize(self.arr, new_len, val)
         IN  IF r.panic THEN Res([self EXCEPT !.arr = r.self], None, TRUE)
             ELSE Res([arr |-> r.self, vec |-> Vec_clear(self.vec)],
                      None, FALSE)

\* for _ in self.len()..N { self.arr.push(f()) }: `count` pushes, each of
\* the result of its own call of f.
RECURSIVE PushCalls(_, _, _, _)
PushCalls(arr, count, p, k) ==
    IF count <= 0 THEN [self |-> arr, panic |-> FALSE, calls |-> k]
    ELSE LET r == ReArr_push(arr, Call(p, k))
         IN  IF r.panic THEN [self |-> r.self, panic |-> TRUE, calls |-> k + 1]
             ELSE PushCalls(r.self, count - 1, p, k + 1)

ComboVec_resize_with(self, new_len, p, k) ==
    IF new_len >= N
    THEN LET r == PushCalls(self.arr, N - ComboVec_len(self), p, k)
         IN  IF r.panic
             THEN [self |-> [self EXCEPT !.arr = r.self], panic |-> TRUE,
                   calls |-> r.calls]
             ELSE LET w == Vec_resize_with(self.vec, new_len - N, p, r.calls)
                  IN  [self |-> [arr |-> r.self, vec |-> w.self],
                       panic |-> FALSE, calls |-> w.calls]
    ELSE LET r == ReArr_resize_with(self.arr, new_len, p, k)
         IN  IF r.panic
             THEN [self |-> [self EXCEPT !.arr = r.self], panic |-> TRUE,
                   calls |-> r.calls]
             ELSE [self |-> [arr |-> r.self, vec |-> Vec_clear(self.vec)],
                   panic |-> FALSE, calls |-> r.calls]

\* ComboVec_remove refilling the array with the Vec's last element.
ComboVec_remove_moves_last(self, index) ==
    IF index >= N
    THEN LET r == Vec_remove(self.vec, index - N)
         IN  Res([self EXCEPT !.vec = r.self], r.ret, r.panic)
    ELSE LET r == ReArr_remove(self.arr, index)
         IN  IF r.panic THEN Res([self EXCEPT !.arr = r.self], None, TRUE)
             ELSE IF Len(self.vec.buf) # 0
             THEN LET back == Vec_pop(self.vec)
                      pushed == ReArr_push(r.self, back.ret)
                  IN  Res([arr |-> pushed.self, vec |-> back.self],
                          r.ret, pushed.panic)
             ELSE Res([self EXCEPT !.arr = r.self], r.ret, FALSE)

\* ComboVec_remove without the refill from the Vec.
ComboVec_remove_no_refill(self, index) ==
    IF index >= N
    THEN LET r == Vec_remove(self.vec, index - N)
         IN  Res([self EXCEPT !.vec = r.self], r.ret, r.panic)
    ELSE LET r == ReArr_remove(self.arr, index)
         IN  Res([self EXCEPT !.arr = r.self], r.ret, r.panic)

ComboVec_remove(self, index) ==
    IF index >= N
    THEN LET r == Vec_remove(self.vec, index - N)
         IN  Res([self EXCEPT !.vec = r.self], r.ret, r.panic)
    ELSE LET r == ReArr_remove(self.arr, index)
         IN  IF r.panic THEN Res([self EXCEPT !.arr = r.self], None, TRUE)
             ELSE IF Len(self.vec.buf) # 0
             THEN LET front == Vec_remove(self.vec, 0)
                      pushed == ReArr_push(r.self, front.ret)
                  IN  Res([arr |-> pushed.self, vec |-> front.self],
                          r.ret, pushed.panic)
             ELSE Res([self EXCEPT !.arr = r.self], r.ret, FALSE)

\* ComboVec_swap_remove comparing len() < N: a full, unspilled ComboVec
\* takes the branch that pops the Vec.
ComboVec_swap_remove_lt(self, index) ==
    IF index >= N
    THEN LET r == Vec_swap_remove(self.vec, index - N)
         IN  Res([self EXCEPT !.vec = r.self], r.ret, r.panic)
    ELSE IF ComboVec_len(self) < N
    THEN LET r == ReArr_swap_remove(self.arr, index)
         IN  Res([self EXCEPT !.arr = r.self], r.ret, r.panic)
    ELSE LET popped == Vec_pop(self.vec)
         IN  IF popped.ret = None THEN Res(self, None, TRUE)
             ELSE LET old == self.arr.arr[index]
                  IN  Res([arr |-> [self.arr EXCEPT !.arr[index] = popped.ret],
                           vec |-> popped.self], old, old = None)

\* ComboVec_swap_remove exchanging inline[index] with the Vec's last
\* element and leaving the Vec as long as it was.
ComboVec_swap_remove_no_pop(self, index) ==
    IF index >= N
    THEN LET r == Vec_swap_remove(self.vec, index - N)
         IN  Res([self EXCEPT !.vec = r.self], r.ret, r.panic)
    ELSE IF ComboVec_len(self) <= N
    THEN LET r == ReArr_swap_remove(self.arr, index)
         IN  Res([self EXCEPT !.arr = r.self], r.ret, r.panic)
    ELSE LET last == Vec_last(self.vec)
             old == self.arr.arr[index]
         IN  IF last = None THEN Res(self, None, TRUE)
             ELSE Res([arr |-> [self.arr EXCEPT !.arr[index] = last],
                       vec |-> [self.vec EXCEPT !.buf[Len(self.vec.buf)] = old]],
                      old, old = None)

ComboVec_swap_remove(self, index) ==
    IF index >= N
    THEN LET r == Vec_swap_remove(self.vec, index - N)
         IN  Res([self EXCEPT !.vec = r.self], r.ret, r.panic)
    ELSE IF ComboVec_len(self) <= N
    THEN LET r == ReArr_swap_remove(self.arr, index)
         IN  Res([self EXCEPT !.arr = r.self], r.ret, r.panic)
    ELSE LET popped == Vec_pop(self.vec)
         IN  IF popped.ret = None THEN Res(self, None, TRUE)
             ELSE LET old == self.arr.arr[index]
                  IN  Res([arr |-> [self.arr EXCEPT !.arr[index] = popped.ret],
                           vec |-> popped.self], old, old = None)

\* ComboVec_index indexing the Vec with the logical index.
ComboVec_index_no_offset(self, idx) ==
    IF idx < N
    THEN LET r == ReArr_index(self.arr, idx) IN Res(self, r.ret, r.panic)
    ELSE LET r == Vec_index(self.vec, idx) IN Res(self, r.ret, r.panic)

ComboVec_index(self, idx) ==
    IF idx < N
    THEN LET r == ReArr_index(self.arr, idx) IN Res(self, r.ret, r.panic)
    ELSE LET r == Vec_index(self.vec, idx - N) IN Res(self, r.ret, r.panic)

ComboVec_index_mut(self, idx) ==
    IF idx < N
    THEN LET r == ReArr_index_mut(self.arr, idx) IN Res(self, r.ret, r.panic)
    ELSE LET r == Vec_index(self.vec, idx - N) IN Res(self, r.ret, r.panic)

\* self[idx] = val
ComboVec_index_mut_write(self, idx, val) ==
    IF ComboVec_index_mut(self, idx).panic THEN Res(self, None, TRUE)
    ELSE IF idx < N THEN Res([self EXCEPT !.arr.arr[idx] = val], None, FALSE)
    ELSE Res([self EXCEPT !.vec.buf[idx - N + 1] = val], None, FALSE)

(***************************************************************************)
(* The program: one object, a ComboVec<T, N> or a ReArr<T, N>, is built    *)
(* and then driven by calls of its methods with arbitrary arguments.       *)
(***************************************************************************)
\* Arrays accepted by from_arr: every slot Some.
FullArrays == [0..N-1 -> Vals]

\* Arrays accepted by from_arr_and_len: Some up to the first None, None
\* from there on.
PrefixArrays ==
    {a \in [0..N-1 -> Vals \cup {None}] :
        \A i \in 0..N-1 : i >= FirstNone(a, 0) => a[i] = None}

\* Arguments of the calls.
Indices == 0..(N + MaxHeap + 1)
Lengths == 0..(N + MaxHeap + 1)
Seqs == UNION {[1..n -> Vals] : n \in 0..MaxHeap}
Producers == [first : Vals, step : {0, 1}]
\* The items of the iterators a ReArr is collected from: fewer than N, N
\* and more than N of them.
Items == UNION {[1..n -> Vals] : n \in 0..(N + 1)}

\* The elements an array passed to a constructor holds, as a list.
ArrPrefix(a) == [i \in 1..FirstNone(a, 0) |-> a[i - 1]]

InitComboVec ==
    /\ kind = "ComboVec"
    /\ ra = ReArr_new
    /\ \/ cv = ComboVec_new /\ list = <<>> /\ op = "new"
       \/ \E a \in FullArrays :
            cv = ComboVec_from_arr(a) /\ list = ArrPrefix(a) /\ op = "from_arr"
       \/ \E a \in PrefixArrays :
            /\ cv = ComboVec_from_arr_and_len(a)
            /\ list = ArrPrefix(a)
            /\ op = "from_arr_and_len"

InitReArr ==
    /\ kind = "ReArr"
    /\ cv = ComboVec_new
    /\ list = <<>>
    /\ \/ ra = ReArr_new /\ op = "new"
       \/ \E a \in FullArrays : ra = ReArr_from_arr(a) /\ op = "from_arr"
       \/ \E a \in PrefixArrays :
            ra = ReArr_from_arr_and_len(a) /\ op = "from_arr_and_len"
       \/ \E iter \in Items :
            LET r == ReArr_from_iter(iter)
            IN  ~r.panic /\ ra = r.self /\ op = "from_iter"

Init ==
    /\ N \in Capacities
    /\ panicked = FALSE
    /\ arg = 0
    /\ (InitComboVec \/ InitReArr)

\* A call on cv that left it as r.self; the plain list becomes l. The calls
\* a plain list has too (push, pop, extend, truncate, clear, resize, remove)
\* are made on the list as well; after any other call (resize_with,
\* swap_remove, a write through get_mut) the list is read anew from cv.
CvStep(name, a, r, l) ==
    /\ kind = "ComboVec"
    /\ ~panicked
    /\ Len(r.self.vec.buf) <= MaxHeap
    /\ cv' = r.self
    /\ panicked' = r.panic
    /\ list' = IF r.panic THEN list ELSE l
    /\ op' = name
    /\ arg' = a
    /\ UNCHANGED <<N, kind, ra>>

\* A call on ra that left it as r.self.
RaStep(name, a, r) ==
    /\ kind = "ReArr"
    /\ ~panicked
    /\ ra' = r.self
    /\ panicked' = r.panic
    /\ op' = name
    /\ arg' = a
    /\ UNCHANGED <<N, kind, cv, list>>

\* The same calls on a plain list.
ListTruncate(l, len) == IF len > Len(l) THEN l ELSE SubSeq(l, 1, len)
ListResize(l, new_len, val) ==
    [i \in 1..new_len |-> IF i <= Len(l) THEN l[i] ELSE val]
ListRemove(l, index) == SubSeq(l, 1, index) \o SubSeq(l, index + 2, Len(l))

CvPush ==
    \E val \in Vals :
        CvStep("push", 0, ComboVec_push(cv, val), Append(list, val))

CvPop ==
    CvStep("pop", 0, ComboVec_pop(cv), SubSeq(list, 1, Len(list) - 1))

CvExtend ==
    \E seq \in Seqs :
        CvStep("extend", Len(seq), ComboVec_extend(cv, seq), list \o seq)

CvTruncate ==
    \E len \in Lengths :
        CvStep("truncate", len, ComboVec_truncate(cv, len), ListTruncate(list, len))

CvClear ==
    CvStep("clear", 0, Res(ComboVec_clear(cv), None, FALSE), <<>>)

CvResize ==
    \E new_len \in Lengths, val \in Vals :
        CvStep("resize", new_len, ComboVec_resize(cv, new_len, val),
               ListResize(list, new_len, val))

CvResizeWith ==
    \E new_len \in Lengths, p \in Producers :
        LET r == ComboVec_resize_with(cv, new_len, p, 0)
        IN  CvStep("resize_with", new_len, r, ComboVec_iter(r.self))

CvRemove ==
    \E index \in Indices :
        CvStep("remove", index, ComboVec_remove(cv, index), ListRemove(list, index))

CvSwapRemove ==
    \E index \in Indices :
        LET r == ComboVec_swap_remove(cv, index)
        IN  CvStep("swap_remove", index, r, ComboVec_iter(r.self))

\* reserve makes room for elements the run can still push.
CvReserve ==
    \E additional \in 0..MaxHeap :
        /\ ComboVec_heap_len(cv) + additional <= MaxHeap
        /\ CvStep("reserve", additional,
                  Res(ComboVec_reserve(cv, additional), None, FALSE), list)

CvGetMutWrite ==
    \E idx \in Indices, val \in Vals :
        LET r == Res(ComboVec_get_mut_write(cv, idx, val), None, FALSE)
        IN  CvStep("get_mut", idx, r, ComboVec_iter(r.self))

\* get(idx) borrows the object and leaves it as it is.
CvGet ==
    \E idx \in Indices :
        CvStep("get", idx, Res(cv, ComboVec_get(cv, idx), FALSE), list)

\* first(), last(), iter() and to_vec() borrow the object and leave it as
\* it is.
CvFirst == CvStep("first", 0, Res(cv, ComboVec_first(cv), FALSE), list)

CvLast == CvStep("last", 0, Res(cv, ComboVec_last(cv), FALSE), list)

CvIter == CvStep("iter", 0, Res(cv, None, FALSE), list)

CvToVec == CvStep("to_vec", 0, Res(cv, None, FALSE), list)

\* cv[idx], read.
CvIndex ==
    \E idx \in Indices :
        CvStep("index", idx, ComboVec_index(cv, idx), list)

\* cv[idx] = val
CvIndexMut ==
    \E idx \in Indices, val \in Vals :
        LET r == ComboVec_index_mut_write(cv, idx, val)
        IN  CvStep("index_mut", idx, r, ComboVec_iter(r.self))

RaPush == \E val \in Vals : RaStep("push", 0, ReArr_push(ra, val))

RaPop == RaStep("pop", 0, ReArr_pop(ra))

RaExtend == \E seq \in Seqs : RaStep("extend", 0, ReArr_extend(ra, seq))

RaTruncate == \E len \in 0..(N + 1) : RaStep("truncate", len, ReArr_truncate(ra, len))

RaClear == RaStep("clear", 0, Res(ReArr_clear(ra), None, FALSE))

RaResize ==
    \E new_len \in 0..(N + 1), val \in Vals :
        RaStep("resize", new_len, ReArr_resize(ra, new_len, val))

RaResizeWith ==
    \E new_len \in 0..(N + 1), p \in Producers :
        RaStep("resize_with", new_len, ReArr_resize_with(ra, new_len, p, 0))

RaRemove == \E index \in 0..(N + 1) : RaStep("remove", index, ReArr_remove(ra, index))

RaSwapRemove ==
    \E index \in 0..(N + 1) :
        RaStep("swap_remove", index, ReArr_swap_remove(ra, index))

RaGet ==
    \E idx \in 0..(N + 1) :
        RaStep("get", idx, Res(ra, ReArr_get(ra, idx), FALSE))

\* ra[idx], read.
RaIndex ==
    \E idx \in 0..(N + 1) : RaStep("index", idx, ReArr_index(ra, idx))

\* ra[idx] = val
RaIndexMut ==
    \E idx \in 0..(N + 1), val \in Vals :
        RaStep("index_mut", idx, ReArr_index_mut_write(ra, idx, val))

Next ==
    \/ CvPush
    \/ CvPop
    \/ CvExtend
    \/ CvTruncate
    \/ CvClear
    \/ CvResize
    \/ CvResizeWith
    \/ CvRemove
    \/ CvSwapRemove
    \/ CvReserve
    \/ CvGetMutWrite
    \/ CvGet
    \/ CvIndex
    \/ CvIndexMut
    \/ CvFirst
    \/ CvLast
    \/ CvIter
    \/ CvToVec
    \/ RaPush
    \/ RaPop
    \/ RaExtend
    \/ RaTruncate
    \/ RaClear
    \/ RaResize
    \/ RaResizeWith
    \/ RaRemove
    \/ RaSwapRemove
    \/ RaGet
    \/ RaIndex
    \/ RaIndexMut

Spec == Init /\ [][Next]_vars

(***************************************************************************)
(* The lockstep program: a ReArr<T, N> and a ComboVec<T, N>, both empty at *)
(* first, receive the same calls, none of which needs a length above N.    *)
(***************************************************************************)
InitLock ==
    /\ N \in Capacities
    /\ kind = "Lockstep"
    /\ cv = ComboVec_new
    /\ ra = ReArr_new
    /\ list = <<>>
    /\ op = "new"
    /\ arg = 0
    /\ panicked = FALSE

\* A call that left cv as rc.self and ra as rr.self; a panic of either
\* ends the run.
LkStep(name, a, rc, rr) ==
    /\ kind = "Lockstep"
    /\ ~panicked
    /\ cv' = rc.self
    /\ ra' = rr.self
    /\ panicked' = (rc.panic \/ rr.panic)
    /\ op' = name
    /\ arg' = a
    /\ UNCHANGED <<N, kind, list>>

LkPush ==
    \E val \in Vals :
        /\ ComboVec_len(cv) < N
        /\ LkStep("push", 0, ComboVec_push(cv, val), ReArr_push(ra, val))

LkPop == LkStep("pop", 0, ComboVec_pop(cv), ReArr_pop(ra))

LkGet ==
    \E idx \in 0..(N + 1) :
        LkStep("get", idx, Res(cv, ComboVec_get(cv, idx), FALSE),
               Res(ra, ReArr_get(ra, idx), FALSE))

LkFirst ==
    LkStep("first", 0, Res(cv, ComboVec_first(cv), FALSE),
           Res(ra, ReArr_first(ra), FALSE))

LkLast ==
    LkStep("last", 0, Res(cv, ComboVec_last(cv), FALSE),
           Res(ra, ReArr_last(ra), FALSE))

LkTruncate ==
    \E len \in 0..(N + 1) :
        LkStep("truncate", len, ComboVec_truncate(cv, len), ReArr_truncate(ra, len))

LkClear ==
    LkStep("clear", 0, Res(ComboVec_clear(cv), None, FALSE),
           Res(ReArr_clear(ra), None, FALSE))

LkRemove ==
    \E index \in 0..(N + 1) :
        LkStep("remove", index, ComboVec_remove(cv, index), ReArr_remove(ra, index))

LkSwapRemove ==
    \E index \in 0..(N + 1) :
        LkStep("swap_remove", index, ComboVec_swap_remove(cv, index),
               ReArr_swap_remove(ra, index))

LkResize ==
    \E new_len \in 0..N, val \in Vals :
        LkStep("resize", new_len, ComboVec_resize(cv, new_len, val),
               ReArr_resize(ra, new_len, val))

LkResizeWith ==
    \E new_len \in 0..N, p \in Producers :
        LkStep("resize_with", new_len, ComboVec_resize_with(cv, new_len, p, 0),
               ReArr_resize_with(ra, new_len, p, 0))

NextLock ==
    \/ LkPush
    \/ LkPop
    \/ LkGet
    \/ LkFirst
    \/ LkLast
    \/ LkTruncate
    \/ LkClear
    \/ LkRemove
    \/ LkSwapRemove
    \/ LkResize
    \/ LkResizeWith

SpecLock == InitLock /\ [][NextLock]_vars

(***************************************************************************)
(* The constructor program: a ReArr<T, N> and a ComboVec<T, N> are built   *)
(* by from_arr_and_len from one array, which may be any array of N         *)
(* options, and then read, pushed to and popped. `list` keeps the array    *)
(* that was given, slot i of it at position i + 1.                         *)
(***************************************************************************)
\* Every array of N options, the ones with a Some after a None included.
AnyArrays == [0..N-1 -> Vals \cup {None}]

\* The array the constructors were given.
GivenArr == [i \in 0..N-1 |-> list[i + 1]]

InitFrom ==
    /\ N \in Capacities
    /\ kind = "FromArr"
    /\ \E a \in AnyArrays :
        /\ ra = ReArr_from_arr_and_len(a)
        /\ cv = ComboVec_from_arr_and_len(a)
        /\ list = [i \in 1..N |-> a[i - 1]]
    /\ op = "from_arr_and_len"
    /\ arg = 0
    /\ panicked = FALSE

\* A call that left cv as rc.self and ra as rr.self; a panic of either
\* ends the run.
FaStep(name, a, rc, rr) ==
    /\ kind = "FromArr"
    /\ ~panicked
    /\ cv' = rc.self
    /\ ra' = rr.self
    /\ panicked' = (rc.panic \/ rr.panic)
    /\ op' = name
    /\ arg' = a
    /\ UNCHANGED <<N, kind, list>>

FaPush ==
    \E val \in Vals :
        /\ ComboVec_len(cv) < N
        /\ FaStep("push", 0, ComboVec_push(cv, val), ReArr_push(ra, val))

FaPop == FaStep("pop", 0, ComboVec_pop(cv), ReArr_pop(ra))

FaGet ==
    \E idx \in 0..N :
        FaStep("get", idx, Res(cv, ComboVec_get(cv, idx), FALSE),
               Res(ra, ReArr_get(ra, idx), FALSE))

NextFrom ==
    \/ FaPush
    \/ FaPop
    \/ FaGet

SpecFrom == InitFrom /\ [][NextFrom]_vars

(***************************************************************************)
(* Properties                                                              *)
(***************************************************************************)
\* The ComboVec is under test and no call has panicked.
CvLive == kind = "ComboVec" /\ ~panicked

\* The ReArr is under test and no call has panicked.
RaLive == kind = "ReArr" /\ ~panicked

Reverse(s) == [i \in 1..Len(s) |-> s[Len(s) + 1 - i]]

RemoveAt(s, index) == SubSeq(s, 1, index) \o SubSeq(s, index + 2, Len(s))

\* The number of Some slots of the inline array.
InlineCount(self) == Len(ReArr_iter(self.arr))

\* C1: no spill until full. In every state of a ComboVec, a non-empty
\* overflow implies a full inline array (heap_len() > 0 => stack_len() = N),
\* and the element at logical index i is one of the inline array's iff i < N.
NoSpillUntilFull ==
    kind = "ComboVec" =>
        /\ ComboVec_heap_len(cv) > 0 => ComboVec_stack_len(cv) = N
        /\ \A i \in 0..(ComboVec_len(cv) - 1) : i < InlineCount(cv) <=> i < N

\* A remove in the inline array, refilled from an overflow that still holds
\* elements afterwards.
NoSpillUntilFullWitness ==
    /\ CvLive /\ op = "remove" /\ arg < N
    /\ ComboVec_heap_len(cv) > 0 /\ ComboVec_stack_len(cv) = N

\* C2: inline prefix invariant. After successful calls, a ReArr has
\* 0 <= len() <= N = capacity(), slots [0, len()) are Some and slots
\* [len(), N) are None.
InlinePrefix ==
    RaLive =>
        /\ 0 <= ReArr_len(ra) /\ ReArr_len(ra) <= N
        /\ ReArr_capacity(ra) = N
        /\ \A i \in 0..N-1 : i < ReArr_len(ra) <=> ra.arr[i] # None

\* A remove before the last element of a ReArr that leaves it partly filled.
InlinePrefixWitness ==
    /\ RaLive /\ op = "remove" /\ arg < ReArr_len(ra)
    /\ ReArr_len(ra) > 0 /\ ReArr_len(ra) < N

\* C3: order preservation. With push, pop, extend, truncate, clear, resize
\* and remove applied to the ComboVec and to a plain list alike, the
\* ComboVec iterates (inline array, then overflow) as the list reads, and
\* pop and remove return what they return on the list.
OrderPreserved ==
    CvLive =>
        /\ ComboVec_iter(cv) = list
        /\ ComboVec_pop(cv).ret =
               (IF list = <<>> THEN None ELSE list[Len(list)])
        /\ \A index \in 0..(Len(list) - 1) :
               LET r == ComboVec_remove(cv, index)
               IN  ~r.panic /\ r.ret = list[index + 1]

\* A remove in the inline array of a spilled ComboVec whose first and last
\* elements differ.
OrderPreservedWitness ==
    /\ CvLive /\ op = "remove" /\ arg < N
    /\ ComboVec_heap_len(cv) > 0
    /\ list[1] # list[Len(list)]

\* C4: the ComboVec never hits a capacity failure. No push, extend, resize
\* or resize_with panics, whatever the target length, and whenever push
\* takes the inline branch (len() < N) slot stack_len() exists and is free.
NoCapacityFailure ==
    CvLive =>
        /\ \A val \in Vals : ~ComboVec_push(cv, val).panic
        /\ \A seq \in Seqs : ~ComboVec_extend(cv, seq).panic
        /\ \A new_len \in Lengths, val \in Vals :
               ~ComboVec_resize(cv, new_len, val).panic
        /\ \A new_len \in Lengths, p \in Producers :
               ~ComboVec_resize_with(cv, new_len, p, 0).panic
        /\ ComboVec_len(cv) < N =>
               /\ ComboVec_stack_len(cv) < N
               /\ cv.arr.arr[ComboVec_stack_len(cv)] = None

\* A push that filled the last inline slot.
NoCapacityFailureWitness ==
    /\ CvLive /\ op = "push" /\ N > 0
    /\ ComboVec_stack_len(cv) = N /\ ComboVec_heap_len(cv) = 0

\* C5: push routing. With len() < N, push(val) stores val in inline slot
\* len(), stack_len() grows by one and heap_len() stays; otherwise val is
\* appended to the overflow, heap_len() grows by one and stack_len() stays.
\* N pushes on an empty ComboVec leave it unspilled, one more spills it
\* with heap_len() = 1.
PushRouting ==
    CvLive =>
        /\ \A val \in Vals :
               LET r == ComboVec_push(cv, val)
                   n == ComboVec_len(cv)
               IN  /\ ~r.panic
                   /\ IF n < N
                      THEN /\ r.self.arr.arr[n] = val
                           /\ ComboVec_stack_len(r.self) = ComboVec_stack_len(cv) + 1
                           /\ ComboVec_heap_len(r.self) = ComboVec_heap_len(cv)
                      ELSE /\ r.self.vec.buf = Append(cv.vec.buf, val)
                           /\ ComboVec_heap_len(r.self) = ComboVec_heap_len(cv) + 1
                           /\ ComboVec_stack_len(r.self) = ComboVec_stack_len(cv)
        /\ \A val \in Vals :
               LET full == ComboVec_extend(ComboVec_new, [i \in 1..N |-> val]).self
                   more == ComboVec_push(full, val).self
               IN  /\ ~ComboVec_spilled(full)
                   /\ ComboVec_spilled(more)
                   /\ ComboVec_heap_len(more) = 1

\* The push that spilled: a full inline array and one overflow element.
PushRoutingWitness ==
    /\ CvLive /\ op = "push" /\ N > 0
    /\ ComboVec_stack_len(cv) = N /\ ComboVec_heap_len(cv) = 1

\* The values n successive pops return.
RECURSIVE Pops(_, _)
Pops(self, n) ==
    IF n = 0 THEN <<>>
    ELSE LET r == ComboVec_pop(self) IN <<r.ret>> \o Pops(r.self, n - 1)

\* C6: pop is LIFO. With len() = k > 0, pop returns the element at logical
\* index k - 1, from the overflow while it holds elements and from the
\* inline array afterwards, and len() becomes k - 1; with len() = 0 it
\* returns None and changes nothing. k + 1 pops return the elements in
\* reverse order and then None.
PopLifo ==
    CvLive =>
        LET r == ComboVec_pop(cv)
            k == ComboVec_len(cv)
            s == ComboVec_iter(cv)
        IN  /\ ~r.panic
            /\ IF k = 0
               THEN r.ret = None /\ r.self = cv
               ELSE /\ r.ret = s[k]
                    /\ r.ret # None
                    /\ ComboVec_len(r.self) = k - 1
                    /\ ComboVec_iter(r.self) = SubSeq(s, 1, k - 1)
                    /\ IF ComboVec_heap_len(cv) > 0
                       THEN /\ r.self.arr = cv.arr
                            /\ ComboVec_heap_len(r.self) = ComboVec_heap_len(cv) - 1
                       ELSE /\ r.self.vec = cv.vec
                            /\ ComboVec_stack_len(r.self) = ComboVec_stack_len(cv) - 1
            /\ Pops(cv, k + 1) = Reverse(s) \o <<None>>

\* A pop that emptied the overflow, with inline elements left to pop.
PopLifoWitness ==
    /\ CvLive /\ op = "pop" /\ N > 0
    /\ ComboVec_stack_len(cv) = N /\ ComboVec_heap_len(cv) = 0
    /\ cv.vec.cap > 0

\* C7: get and get_mut never fail and return an element iff i < len(): the
\* i-th element of the sequence when i < len(), None otherwise, also for
\* i >= N and for i far beyond the overflow; on ComboVec and on ReArr.
GetInBounds ==
    /\ CvLive =>
           \A i \in Indices \cup {N + MaxHeap + 1000} :
               LET want == IF i < ComboVec_len(cv)
                           THEN ComboVec_iter(cv)[i + 1] ELSE None
               IN  ComboVec_get(cv, i) = want /\ ComboVec_get_mut(cv, i) = want
    /\ RaLive =>
           \A i \in Indices \cup {N + MaxHeap + 1000} :
               LET want == IF i < ReArr_len(ra)
                           THEN ReArr_iter(ra)[i + 1] ELSE None
               IN  ReArr_get(ra, i) = want /\ ReArr_get_mut(ra, i) = want

\* A get of the last element of a ComboVec whose overflow is as long as it
\* gets.
GetInBoundsWitness ==
    /\ CvLive /\ op = "get" /\ N > 0
    /\ ComboVec_heap_len(cv) = MaxHeap
    /\ arg = ComboVec_len(cv) - 1

\* C8: truncate(new_len). With new_len >= len() nothing changes; otherwise
\* len() becomes new_len and the first new_len elements stay, in order.
\* With new_len >= N only the overflow is cut, to new_len - N, and the
\* inline array stays full; with new_len < N the overflow becomes empty
\* and stack_len() becomes new_len.
TruncateKeepsPrefix ==
    CvLive =>
        \A new_len \in Lengths :
            LET r == ComboVec_truncate(cv, new_len)
                s == ComboVec_iter(cv)
            IN  /\ ~r.panic
                /\ IF new_len >= ComboVec_len(cv)
                   THEN r.self = cv
                   ELSE /\ ComboVec_len(r.self) = new_len
                        /\ ComboVec_iter(r.self) = SubSeq(s, 1, new_len)
                        /\ IF new_len >= N
                           THEN /\ ComboVec_heap_len(r.self) = new_len - N
                                /\ r.self.arr = cv.arr
                                /\ ComboVec_stack_len(r.self) = N
                           ELSE /\ ComboVec_heap_len(r.self) = 0
                                /\ ComboVec_stack_len(r.self) = new_len

\* A truncate below N of a ComboVec that had spilled.
TruncateKeepsPrefixWitness ==
    /\ CvLive /\ op = "truncate" /\ arg < N /\ arg > 0
    /\ ComboVec_len(cv) = arg
    /\ cv.vec.cap > 0

\* C9: ReArr::truncate(new_len) is a no-op for every new_len >= len(): it
\* does not fail and leaves the contents and len() as they were, also for
\* new_len greater than the capacity N.
ReArrTruncateNoOp ==
    RaLive =>
        \A new_len \in 0..(N + 1) :
            new_len >= ReArr_len(ra) =>
                LET r == ReArr_truncate(ra, new_len)
                IN  ~r.panic /\ r.self = ra

\* C10: remove(index) with index < len() returns the element at logical
\* index `index`, keeps the others in order and reduces len() by one. With
\* index < N and a non-empty overflow, the overflow's first element moves
\* into the last inline slot: stack_len() stays N and heap_len() drops by
\* one. With index >= N only the overflow changes.
RemoveShifts ==
    CvLive =>
        \A index \in 0..(ComboVec_len(cv) - 1) :
            LET r == ComboVec_remove(cv, index)
                s == ComboVec_iter(cv)
            IN  /\ ~r.panic
                /\ r.ret = s[index + 1]
                /\ ComboVec_iter(r.self) = RemoveAt(s, index)
                /\ ComboVec_len(r.self) = ComboVec_len(cv) - 1
                /\ (index < N /\ ComboVec_heap_len(cv) > 0) =>
                       /\ ComboVec_stack_len(r.self) = N
                       /\ ComboVec_heap_len(r.self) = ComboVec_heap_len(cv) - 1
                       /\ r.self.arr.arr[N - 1] = cv.vec.buf[1]
                /\ index >= N => r.self.arr = cv.arr

\* A remove of the first element of a spilled ComboVec: the inline array is
\* full again and the overflow is one shorter than it can be.
RemoveShiftsWitness ==
    /\ CvLive /\ op = "remove" /\ arg = 0 /\ N > 0
    /\ ComboVec_stack_len(cv) = N
    /\ ComboVec_heap_len(cv) = MaxHeap - 1

\* What swap_remove(index) leaves of a list: the last element in the place
\* of the one at index, and the list one shorter.
SwapRemoveAt(s, index) ==
    [i \in 1..(Len(s) - 1) |-> IF i = index + 1 THEN s[Len(s)] ELSE s[i]]

\* A ReArr in the shape of the inline prefix invariant.
PrefixShape(self) ==
    /\ self.arr_len <= N
    /\ \A i \in 0..N-1 : i < self.arr_len <=> self.arr[i] # None

\* What C11 asks of ReArr::swap_remove(index) on ra.
ReArrSwapRemoveOk(index) ==
    LET r == ReArr_swap_remove(ra, index)
        s == ReArr_iter(ra)
    IN  /\ ~r.panic
        /\ r.ret = s[index + 1]
        /\ ReArr_len(r.self) = ReArr_len(ra) - 1
        /\ ReArr_iter(r.self) = SwapRemoveAt(s, index)
        /\ PrefixShape(r.self)

\* C11 as stated: ReArr::swap_remove(index) succeeds for every index < len(),
\* index = len() - 1 included: it returns the element at index, puts the
\* last element in its place, reduces len() by one and leaves the others.
ReArrSwapRemoveAll ==
    RaLive => \A index \in 0..(ReArr_len(ra) - 1) : ReArrSwapRemoveOk(index)

\* C11 as amended: ReArr::swap_remove(index) succeeds so for every
\* index < len() - 1; with index = len() - 1 it panics.
ReArrSwapRemove ==
    RaLive =>
        /\ \A index \in 0..(ReArr_len(ra) - 2) : ReArrSwapRemoveOk(index)
        /\ ReArr_len(ra) > 0 =>
               ReArr_swap_remove(ra, ReArr_len(ra) - 1).panic

\* A swap_remove on a ReArr that put the last element in the place of
\* another one.
ReArrSwapRemoveWitness ==
    /\ RaLive /\ op = "swap_remove"
    /\ arg < ReArr_len(ra)

\* What C12 asks of ComboVec::swap_remove(index) on cv.
SwapRemoveOk(index) ==
    LET r == ComboVec_swap_remove(cv, index)
        s == ComboVec_iter(cv)
    IN  /\ ~r.panic
        /\ r.ret = s[index + 1]
        /\ ComboVec_len(r.self) = ComboVec_len(cv) - 1
        /\ ComboVec_iter(r.self) = SwapRemoveAt(s, index)
        /\ ComboVec_heap_len(r.self) > 0 => ComboVec_stack_len(r.self) = N
        /\ PrefixShape(r.self.arr)
        /\ IF index >= N
           THEN /\ r.self.arr = cv.arr
                /\ r.self.vec = Vec_swap_remove(cv.vec, index - N).self
           ELSE IF ComboVec_heap_len(cv) > 0
           THEN /\ r.self.arr.arr[index] = Vec_last(cv.vec)
                /\ r.self.vec = Vec_pop(cv.vec).self
                /\ ComboVec_stack_len(r.self) = N
           ELSE /\ r.self.arr = ReArr_swap_remove(cv.arr, index).self
                /\ r.self.vec = cv.vec

\* C12 as stated: ComboVec::swap_remove(index) succeeds for every
\* index < len(): it returns the element at logical index `index`, reduces
\* len() by one and keeps the no-spill invariant; with index >= N it
\* swap-removes in the overflow, with index < N and a non-empty overflow the
\* overflow's last element replaces inline[index] and the inline array stays
\* full, with index < N and an empty overflow it is the inline array's
\* swap_remove.
SwapRemoveAll ==
    CvLive => \A index \in 0..(ComboVec_len(cv) - 1) : SwapRemoveOk(index)

\* C12 as amended: the same for every index < len() except the index of
\* the last element of an unspilled ComboVec (index = len() - 1 with
\* len() <= N), where the call panics.
SwapRemove ==
    CvLive =>
        \A index \in 0..(ComboVec_len(cv) - 1) :
            IF index = ComboVec_len(cv) - 1 /\ ComboVec_len(cv) <= N
            THEN ComboVec_swap_remove(cv, index).panic
            ELSE SwapRemoveOk(index)

\* A swap_remove in the inline array of a ComboVec that is still spilled
\* after it.
SwapRemoveWitness ==
    /\ CvLive /\ op = "swap_remove" /\ arg < N
    /\ ComboVec_heap_len(cv) > 0

\* C13: ComboVec::swap_remove(index) panics if index >= len() and if index
\* is the index of the last element (index = len() - 1), spilled or not.
SwapRemovePanics ==
    CvLive =>
        \A index \in Indices :
            index + 1 >= ComboVec_len(cv) =>
                ComboVec_swap_remove(cv, index).panic

\* C14: ComboVec::resize(new_len, val) makes len() = new_len: the first
\* min(old len, new_len) elements stay, every added element is val, and the
\* no-spill invariant holds afterwards: growing past N fills the inline
\* array to N and the overflow to new_len - N, shrinking below N empties
\* the overflow.
ResizeSetsLen ==
    CvLive =>
        \A new_len \in Lengths, val \in Vals :
            LET r == ComboVec_resize(cv, new_len, val)
                s == ComboVec_iter(cv)
                t == ComboVec_iter(r.self)
            IN  /\ ~r.panic
                /\ ComboVec_len(r.self) = new_len
                /\ Len(t) = new_len
                /\ \A i \in 1..new_len : t[i] = IF i <= Len(s) THEN s[i] ELSE val
                /\ PrefixShape(r.self.arr)
                /\ ComboVec_heap_len(r.self) > 0 => ComboVec_stack_len(r.self) = N
                /\ IF new_len >= N
                   THEN /\ ComboVec_stack_len(r.self) = N
                        /\ ComboVec_heap_len(r.self) = new_len - N
                   ELSE /\ ComboVec_stack_len(r.self) = new_len
                        /\ ComboVec_heap_len(r.self) = 0

\* A resize that left the inline array full and the overflow as long as it
\* gets.
ResizeSetsLenWitness ==
    /\ CvLive /\ op = "resize" /\ N > 0
    /\ arg = N + MaxHeap
    /\ ComboVec_stack_len(cv) = N /\ ComboVec_heap_len(cv) = MaxHeap

\* The elements at logical indices [from, to) of a list are the results of
\* the calls 0, 1, ... of the producer p, one call each.
OwnCalls(t, from, to, p) ==
    \A j \in 0..(to - from - 1) : t[from + j + 1] = Call(p, j)

\* C15: resize_with(new_len, f) fills each added slot with the result of
\* its own call of f: growing by k calls f exactly k times and the j-th new
\* element is the j-th result; for ReArr::resize_with and for both branches
\* of ComboVec::resize_with.
ResizeWithOwnCalls ==
    /\ RaLive =>
           \A new_len \in 0..N, p \in Producers :
               new_len > ReArr_len(ra) =>
                   LET r == ReArr_resize_with(ra, new_len, p, 0)
                   IN  /\ r.calls = new_len - ReArr_len(ra)
                       /\ OwnCalls(ReArr_iter(r.self), ReArr_len(ra), new_len, p)
    /\ CvLive =>
           \A new_len \in Lengths, p \in Producers :
               new_len > ComboVec_len(cv) =>
                   LET r == ComboVec_resize_with(cv, new_len, p, 0)
                   IN  /\ r.calls = new_len - ComboVec_len(cv)
                       /\ OwnCalls(ComboVec_iter(r.self), ComboVec_len(cv), new_len, p)

\* C16: ReArr::push on a full array (len() = N, also N = 0) panics and
\* leaves the contents and len() as they were; otherwise it stores val in
\* slot len() and len() grows by one.
ReArrPushFull ==
    RaLive =>
        \A val \in Vals :
            LET r == ReArr_push(ra, val)
            IN  IF ReArr_len(ra) = N
                THEN r.panic /\ r.self = ra
                ELSE /\ ~r.panic
                     /\ r.self.arr = [ra.arr EXCEPT ![ReArr_len(ra)] = val]
                     /\ ReArr_len(r.self) = ReArr_len(ra) + 1

\* A push on a full ReArr: it panicked and the array is as it was, full.
ReArrPushFullWitness ==
    /\ kind = "ReArr" /\ panicked /\ op = "push" /\ N > 0
    /\ ReArr_len(ra) = N /\ PrefixShape(ra)

\* C17: ReArr::resize(new_len, val) and ReArr::resize_with(new_len, f) with
\* new_len > N panic and leave the contents and len() as they were; with
\* new_len <= N they do not panic and len() becomes new_len.
ReArrResizeBound ==
    RaLive =>
        \A new_len \in 0..(N + 2) :
            /\ \A val \in Vals :
                   LET r == ReArr_resize(ra, new_len, val)
                   IN  IF new_len > N
                       THEN r.panic /\ r.self = ra
                       ELSE ~r.panic /\ ReArr_len(r.self) = new_len
            /\ \A p \in Producers :
                   LET r == ReArr_resize_with(ra, new_len, p, 0)
                   IN  IF new_len > N
                       THEN r.panic /\ r.self = ra
                       ELSE ~r.panic /\ ReArr_len(r.self) = new_len

\* A resize of a ReArr beyond N: it panicked and the array is in shape.
ReArrResizeBoundWitness ==
    /\ kind = "ReArr" /\ panicked /\ op = "resize"
    /\ arg > N /\ PrefixShape(ra) /\ ReArr_len(ra) > 0

\* C18: remove(index) with index >= len() panics, on ReArr and on ComboVec,
\* for an index below N, equal to N or beyond the overflow, and leaves the
\* contents and len() as they were.
RemoveOutOfBounds ==
    /\ RaLive =>
           \A index \in Indices :
               index >= ReArr_len(ra) =>
                   LET r == ReArr_remove(ra, index)
                   IN  r.panic /\ r.self = ra
    /\ CvLive =>
           \A index \in Indices :
               index >= ComboVec_len(cv) =>
                   LET r == ComboVec_remove(cv, index)
                   IN  r.panic /\ r.self = cv

\* A remove below N beyond the elements of a ComboVec: it panicked and the
\* ComboVec still reads as the list.
RemoveOutOfBoundsWitness ==
    /\ kind = "ComboVec" /\ panicked /\ op = "remove"
    /\ arg < N /\ arg >= ComboVec_len(cv) /\ ComboVec_len(cv) > 0
    /\ ComboVec_iter(cv) = list

\* C19: a swap_remove out of bounds never corrupts the container. With
\* index >= len() (or an empty container) ReArr::swap_remove and
\* ComboVec::swap_remove panic, and the state at the panic satisfies the
\* inline prefix invariant and the no-spill invariant, with the contents and
\* len() as before the call.
SwapRemoveOutOfBounds ==
    /\ RaLive =>
           \A index \in Indices :
               index >= ReArr_len(ra) =>
                   LET r == ReArr_swap_remove(ra, index)
                   IN  r.panic /\ PrefixShape(r.self) /\ r.self = ra
    /\ CvLive =>
           \A index \in Indices :
               index >= ComboVec_len(cv) =>
                   LET r == ComboVec_swap_remove(cv, index)
                   IN  /\ r.panic
                       /\ PrefixShape(r.self.arr)
                       /\ ComboVec_heap_len(r.self) > 0 =>
                              ComboVec_stack_len(r.self) = N
                       /\ r.self = cv

\* What C20 asks of the indexing operator at idx: r is the read, m the
\* borrow for writing, w a write; s the elements of self and get the
\* result of get(idx).
IndexOk(r, m, w, s, get, idx, self) ==
    IF idx < Len(s)
    THEN /\ ~r.panic /\ r.ret = get /\ r.ret = s[idx + 1] /\ r.self = self
         /\ ~m.panic /\ m.ret = get /\ m.self = self
         /\ ~w.panic
    ELSE /\ r.panic /\ r.self = self
         /\ m.panic /\ m.self = self
         /\ w.panic /\ w.self = self

\* C20: the indexing operator c[idx], read and written, on ComboVec and on
\* ReArr, gives the element get(idx) gives when idx < len() and panics for
\* every idx >= len(); it never changes len(), and a write changes the
\* element at idx only.
IndexInBounds ==
    /\ RaLive =>
           \A idx \in Indices \cup {N + MaxHeap + 1000}, val \in Vals :
               LET w == ReArr_index_mut_write(ra, idx, val)
               IN  /\ IndexOk(ReArr_index(ra, idx), ReArr_index_mut(ra, idx), w,
                              ReArr_iter(ra), ReArr_get(ra, idx), idx, ra)
                   /\ ReArr_len(w.self) = ReArr_len(ra)
                   /\ idx < ReArr_len(ra) =>
                          ReArr_iter(w.self) = [ReArr_iter(ra) EXCEPT ![idx + 1] = val]
    /\ CvLive =>
           \A idx \in Indices \cup {N + MaxHeap + 1000}, val \in Vals :
               LET w == ComboVec_index_mut_write(cv, idx, val)
               IN  /\ IndexOk(ComboVec_index(cv, idx), ComboVec_index_mut(cv, idx), w,
                              ComboVec_iter(cv), ComboVec_get(cv, idx), idx, cv)
                   /\ ComboVec_len(w.self) = ComboVec_len(cv)
                   /\ ComboVec_stack_len(w.self) = ComboVec_stack_len(cv)
                   /\ idx < ComboVec_len(cv) =>
                          ComboVec_iter(w.self) = [ComboVec_iter(cv) EXCEPT ![idx + 1] = val]

\* A read cv[idx] of the last element of a ComboVec whose overflow is as
\* long as it gets.
IndexInBoundsWitness ==
    /\ CvLive /\ op = "index" /\ N > 0
    /\ ComboVec_heap_len(cv) = MaxHeap
    /\ arg = ComboVec_len(cv) - 1

\* A live ComboVec right after an iter() on it. iter() can be called in
\* every state of a live ComboVec (CvIter is enabled) and leaves it as it
\* is, so every state of the ComboVec is one of these too, and what holds of
\* the calls made from these states holds of the calls made from every
\* state.
CvAfterIter == CvLive /\ op = "iter"

\* The ComboVec after push of each element of seq, the last one last.
RECURSIVE PushEach(_, _)
PushEach(self, seq) ==
    IF seq = <<>> THEN self
    ELSE ComboVec_push(PushEach(self, SubSeq(seq, 1, Len(seq) - 1)),
                       seq[Len(seq)]).self

\* C21: ComboVec::extend(seq) is as pushing the elements of seq one at a
\* time in order: the state it leaves is that of the pushes, the no-spill
\* invariant holds after each element, and the free inline slots are filled
\* before any element reaches the overflow. (The sequences tried include
\* the prefixes of each of them: what holds after every extend holds after
\* each element of an extend.)
ExtendIsPushes ==
    /\ CvLive => ENABLED CvIter
    /\ CvAfterIter =>
        \A seq \in Seqs :
            LET r == ComboVec_extend(cv, seq)
                t == r.self
                n == ComboVec_len(cv) + Len(seq)
            IN  /\ ~r.panic
                /\ t = PushEach(cv, seq)
                /\ ComboVec_iter(t) = ComboVec_iter(cv) \o seq
                /\ PrefixShape(t.arr)
                /\ ComboVec_heap_len(t) > 0 => ComboVec_stack_len(t) = N
                /\ ComboVec_stack_len(t) = Min(N, n)
                /\ ComboVec_heap_len(t) = Max(0, n - N)

\* An extend by more than one element that filled the last inline slot and
\* put one element in the overflow.
ExtendIsPushesWitness ==
    /\ CvLive /\ op = "extend" /\ arg > 1 /\ N > 0
    /\ ComboVec_stack_len(cv) = N /\ ComboVec_heap_len(cv) = 1

\* C22: first() and last() agree with get, for every N, 0 included:
\* first() = get(0) and last() = get(len() - 1) when len() > 0, last() being
\* the overflow's last element when spilled and the last occupied inline
\* slot otherwise; both are None iff len() = 0.
FirstLastAgree ==
    /\ CvLive =>
           LET n == ComboVec_len(cv)
           IN  /\ ComboVec_first(cv) = ComboVec_get(cv, 0)
               /\ ComboVec_first(cv) = None <=> n = 0
               /\ ComboVec_last(cv) = None <=> n = 0
               /\ n > 0 =>
                      /\ ComboVec_last(cv) = ComboVec_get(cv, n - 1)
                      /\ ComboVec_first(cv) = ComboVec_iter(cv)[1]
                      /\ ComboVec_last(cv) = ComboVec_iter(cv)[n]
                      /\ ComboVec_last(cv) =
                             (IF ComboVec_spilled(cv)
                              THEN cv.vec.buf[ComboVec_heap_len(cv)]
                              ELSE cv.arr.arr[ComboVec_stack_len(cv) - 1])
    /\ RaLive =>
           LET n == ReArr_len(ra)
           IN  /\ ReArr_first(ra) = ReArr_get(ra, 0)
               /\ ReArr_first(ra) = None <=> n = 0
               /\ ReArr_last(ra) = None <=> n = 0
               /\ n > 0 => ReArr_last(ra) = ReArr_get(ra, n - 1)

\* A last() on a spilled ComboVec whose last inline element differs from
\* the overflow's last.
FirstLastAgreeWitness ==
    /\ CvLive /\ op = "last" /\ N > 0
    /\ ComboVec_spilled(cv)
    /\ cv.arr.arr[N - 1] # cv.vec.buf[ComboVec_heap_len(cv)]

\* C23: iteration covers the elements and nothing else: iter(), iter_mut()
\* and into_iter() of a ComboVec yield len() items, the k-th being get(k),
\* the inline elements in slot order and then the overflow's; iterating
\* leaves the ComboVec as it was, so a second iteration yields the same.
IterCoversAll ==
    CvLive =>
        LET s == ComboVec_iter(cv)
        IN  /\ Len(s) = ComboVec_len(cv)
            /\ \A k \in 0..(Len(s) - 1) :
                   /\ s[k + 1] = ComboVec_get(cv, k)
                   /\ s[k + 1] # None
                   /\ s[k + 1] = (IF k < N THEN cv.arr.arr[k]
                                  ELSE cv.vec.buf[k - N + 1])
            /\ ComboVec_iter_mut(cv) = s
            /\ ComboVec_into_iter(cv) = s
            /\ op = "iter" => s = list

\* An iter() on a ComboVec whose overflow is as long as it gets and whose
\* first and last elements differ.
IterCoversAllWitness ==
    /\ CvLive /\ op = "iter" /\ N > 0
    /\ ComboVec_heap_len(cv) = MaxHeap
    /\ ComboVec_first(cv) # ComboVec_last(cv)

\* C24: round trip. A fresh ComboVec of the same N extended with the
\* elements of cv (to_vec) has the same len(), iterates in the same order,
\* holds the same value at every index and splits into the same
\* stack_len() and heap_len().
RoundTrip ==
    CvLive =>
        LET r == ComboVec_extend(ComboVec_new, ComboVec_to_vec(cv))
            c == r.self
        IN  /\ ~r.panic
            /\ ComboVec_len(c) = ComboVec_len(cv)
            /\ ComboVec_iter(c) = ComboVec_iter(cv)
            /\ \A i \in Indices : ComboVec_get(c, i) = ComboVec_get(cv, i)
            /\ ComboVec_stack_len(c) = ComboVec_stack_len(cv)
            /\ ComboVec_heap_len(c) = ComboVec_heap_len(cv)

\* A to_vec() on a spilled ComboVec.
RoundTripWitness ==
    /\ CvLive /\ op = "to_vec" /\ N > 0
    /\ ComboVec_heap_len(cv) = MaxHeap
    /\ ComboVec_stack_len(cv) = N

\* C25: idempotence. truncate(len()) leaves the contents, stack_len() and
\* heap_len() of a ComboVec (and the contents and len() of a ReArr) as they
\* were, and clear() after clear() leaves what one clear() leaves.
Idempotent ==
    /\ CvLive =>
           LET r == ComboVec_truncate(cv, ComboVec_len(cv))
               c == ComboVec_clear(cv)
           IN  /\ ~r.panic
               /\ r.self = cv
               /\ ComboVec_iter(r.self) = ComboVec_iter(cv)
               /\ ComboVec_stack_len(r.self) = ComboVec_stack_len(cv)
               /\ ComboVec_heap_len(r.self) = ComboVec_heap_len(cv)
               /\ ComboVec_clear(c) = c
    /\ RaLive =>
           LET r == ReArr_truncate(ra, ReArr_len(ra))
               c == ReArr_clear(ra)
           IN  /\ ~r.panic
               /\ r.self = ra
               /\ ReArr_clear(c) = c

\* A truncate of a spilled ComboVec to the length it has.
IdempotentWitness ==
    /\ CvLive /\ op = "truncate" /\ N > 0
    /\ arg = ComboVec_len(cv)
    /\ ComboVec_heap_len(cv) = MaxHeap

\* C26: clear() is truncate(0). On a ComboVec and on a ReArr both leave
\* the same state: len() = 0, every inline slot empty and the overflow
\* empty, so that the next push goes to inline slot 0 when N > 0.
ClearIsTruncateZero ==
    /\ CvLive =>
           LET c == ComboVec_clear(cv)
               t == ComboVec_truncate(cv, 0)
           IN  /\ ~t.panic
               /\ t.self = c
               /\ ComboVec_len(c) = 0
               /\ ComboVec_heap_len(c) = 0
               /\ \A i \in 0..N-1 : c.arr.arr[i] = None
               /\ ComboVec_iter(c) = <<>>
               /\ N > 0 =>
                      \A val \in Vals :
                          LET p == ComboVec_push(c, val)
                          IN  /\ ~p.panic
                              /\ p.self.arr.arr[0] = val
                              /\ ComboVec_heap_len(p.self) = 0
    /\ RaLive =>
           LET c == ReArr_clear(ra)
               t == ReArr_truncate(ra, 0)
           IN  /\ ~t.panic
               /\ t.self = c
               /\ ReArr_len(c) = 0
               /\ \A i \in 0..N-1 : c.arr[i] = None

\* A clear() of a ComboVec whose overflow had been allocated.
ClearIsTruncateZeroWitness ==
    /\ CvLive /\ op = "clear" /\ N > 0
    /\ ComboVec_len(cv) = 0
    /\ cv.vec.cap > 0

\* How often v occurs in a list.
CountOf(s, v) == Cardinality({i \in DOMAIN s : s[i] = v})

\* The values of a list.
Range(s) == {s[i] : i \in DOMAIN s}

\* P(self, sup) holds of every call on cv that is neither remove nor
\* swap_remove: self is the ComboVec the call leaves (also when it panics)
\* and sup the values its arguments supply.
OtherCalls(P(_, _)) ==
    /\ \A val \in Vals : P(ComboVec_push(cv, val).self, {val})
    /\ P(ComboVec_pop(cv).self, {})
    /\ \A seq \in Seqs : P(ComboVec_extend(cv, seq).self, Range(seq))
    /\ \A len \in Lengths : P(ComboVec_truncate(cv, len).self, {})
    /\ P(ComboVec_clear(cv), {})
    /\ \A additional \in 0..MaxHeap : P(ComboVec_reserve(cv, additional), {})
    /\ \A new_len \in Lengths :
           /\ \A val \in Vals : P(ComboVec_resize(cv, new_len, val).self, {val})
           /\ \A p \in Producers :
                  LET r == ComboVec_resize_with(cv, new_len, p, 0)
                  IN  P(r.self, {Call(p, k) : k \in 0..(r.calls - 1)})
    /\ \A idx \in Indices, val \in Vals :
           /\ P(ComboVec_get_mut_write(cv, idx, val), {val})
           /\ P(ComboVec_index_mut_write(cv, idx, val).self, {val})

\* P(self, sup) holds of every remove and swap_remove call on cv.
RemoveCalls(P(_, _)) ==
    \A index \in Indices :
        /\ P(ComboVec_remove(cv, index).self, {})
        /\ P(ComboVec_swap_remove(cv, index).self, {})

\* No value but those of sup occurs more often in `after` than in `before`.
NoneGained(before, after, sup) ==
    \/ after = before
    \/ \A v \in Vals \ sup : CountOf(after, v) <= CountOf(before, v)

\* The overflow of self holds nothing new but values of sup.
OverflowKept(self, sup) == NoneGained(cv.vec.buf, self.vec.buf, sup)

\* The inline array of self holds nothing new but values of sup.
InlineKept(self, sup) == NoneGained(ReArr_iter(cv.arr), ReArr_iter(self.arr), sup)

\* C27: no call moves an element from the inline array to the overflow:
\* across every call, each element of the overflow afterwards was in the
\* overflow before or is supplied by the call's arguments.
NoMoveToOverflow ==
    /\ CvLive => ENABLED CvIter
    /\ CvAfterIter => OtherCalls(OverflowKept) /\ RemoveCalls(OverflowKept)

\* A push that spilled a ComboVec none of whose inline elements is in the
\* overflow.
NoMoveToOverflowWitness ==
    /\ CvLive /\ op = "push" /\ N > 0
    /\ ComboVec_heap_len(cv) > 0
    /\ Range(ReArr_iter(cv.arr)) \cap Range(cv.vec.buf) = {}

\* C28 as stated: no call, remove and swap_remove included, moves an
\* element from the overflow to the inline array: across every call, each
\* element of the inline array afterwards was in the inline array before or
\* is supplied by the call's arguments.
NoMoveToInlineAll ==
    CvAfterIter => OtherCalls(InlineKept) /\ RemoveCalls(InlineKept)

\* C28 as amended: no call other than remove and swap_remove does.
\* remove(index) with index < N on a spilled ComboVec moves the overflow's
\* first element to the last inline slot, swap_remove(index) with index < N
\* on a spilled ComboVec moves the overflow's last element to inline slot
\* index, and neither moves any other element between the two.
NoMoveToInline ==
    /\ CvLive => ENABLED CvIter
    /\ CvAfterIter =>
        /\ OtherCalls(InlineKept)
        /\ \A index \in Indices :
               LET r == ComboVec_remove(cv, index)
                   w == ComboVec_swap_remove(cv, index)
                   inline == ReArr_iter(cv.arr)
               IN  IF index < N /\ ComboVec_spilled(cv)
                   THEN /\ ReArr_iter(r.self.arr) =
                               RemoveAt(inline, index) \o <<cv.vec.buf[1]>>
                        /\ r.self.vec.buf = Tail(cv.vec.buf)
                        /\ ReArr_iter(w.self.arr) =
                               [inline EXCEPT ![index + 1] = Vec_last(cv.vec)]
                        /\ w.self.vec.buf =
                               SubSeq(cv.vec.buf, 1, Len(cv.vec.buf) - 1)
                   ELSE /\ NoneGained(inline, ReArr_iter(r.self.arr), {})
                        /\ NoneGained(inline, ReArr_iter(w.self.arr), {})

\* A remove in the inline array of a spilled ComboVec: the element that
\* came into the last inline slot differs from the one now first in the
\* overflow.
NoMoveToInlineWitness ==
    /\ CvLive /\ op = "remove" /\ arg < N
    /\ ComboVec_heap_len(cv) > 0
    /\ cv.arr.arr[N - 1] # cv.vec.buf[1]

\* The two results of one call, on cv and on ra, agree: both panic, or
\* neither does and they return the same.
SameResult(rc, rr) ==
    /\ rc.panic = rr.panic
    /\ ~rc.panic => rc.ret = rr.ret

\* C29: a ReArr<T, N> is a ComboVec<T, N> without the overflow. Started
\* empty and given the same push, pop, get, first, last, truncate, clear,
\* remove, swap_remove, resize and resize_with calls, none needing a length
\* above N, the two return the same values, panic on the same calls and
\* hold the same elements after every step.
LockstepSame ==
    (kind = "Lockstep" /\ ~panicked) =>
        /\ ReArr_iter(ra) = ComboVec_iter(cv)
        /\ ReArr_len(ra) = ComboVec_len(cv)
        /\ ComboVec_len(cv) < N =>
               \A val \in Vals :
                   SameResult(ComboVec_push(cv, val), ReArr_push(ra, val))
        /\ SameResult(ComboVec_pop(cv), ReArr_pop(ra))
        /\ \A idx \in 0..(N + 1) : ComboVec_get(cv, idx) = ReArr_get(ra, idx)
        /\ ComboVec_first(cv) = ReArr_first(ra)
        /\ ComboVec_last(cv) = ReArr_last(ra)
        /\ \A len \in 0..(N + 1) :
               SameResult(ComboVec_truncate(cv, len), ReArr_truncate(ra, len))
        /\ \A index \in 0..(N + 1) :
               /\ SameResult(ComboVec_remove(cv, index), ReArr_remove(ra, index))
               /\ SameResult(ComboVec_swap_remove(cv, index),
                             ReArr_swap_remove(ra, index))
        /\ \A new_len \in 0..N :
               /\ \A val \in Vals :
                      SameResult(ComboVec_resize(cv, new_len, val),
                                 ReArr_resize(ra, new_len, val))
               /\ \A p \in Producers :
                      ComboVec_resize_with(cv, new_len, p, 0).panic
                          = ReArr_resize_with(ra, new_len, p, 0).panic

\* C30: length additivity. len() = stack_len() + heap_len(), stack_len()
\* being the number of occupied inline slots and heap_len() the length of
\* the overflow; len() is the number of elements, and is_empty() holds iff
\* len() = 0.
LengthAdditive ==
    CvLive =>
        /\ ComboVec_len(cv) = ComboVec_stack_len(cv) + ComboVec_heap_len(cv)
        /\ ComboVec_stack_len(cv) = Cardinality({i \in 0..N-1 : cv.arr.arr[i] # None})
        /\ ComboVec_heap_len(cv) = Len(cv.vec.buf)
        /\ ComboVec_len(cv) = Len(ComboVec_iter(cv))
        /\ ComboVec_len(cv) = Len(list)
        /\ ComboVec_is_empty(cv) <=> ComboVec_len(cv) = 0
        /\ ComboVec_is_empty(cv) <=> ComboVec_iter(cv) = <<>>

\* A ComboVec with elements in the overflow and the inline array.
LengthAdditiveWitness ==
    /\ CvLive /\ N > 0
    /\ ComboVec_stack_len(cv) = N
    /\ ComboVec_heap_len(cv) = MaxHeap
    /\ ~ComboVec_is_empty(cv)

\* The amounts of room a reserve call is asked for in the properties: none,
\* less than the allocation already has, and more than it has.
Additionals == 0..(2 * MaxHeap + 3)

\* C31: reserve(additional) changes nothing observable about the sequence.
\* For every reachable state and every additional, len(), stack_len(),
\* heap_len(), spilled(), is_empty() and every get(i) are the same before
\* and after the call: only the capacity of the overflow buffer may differ,
\* and it never shrinks.
ReserveFrame ==
    CvLive =>
        \A additional \in Additionals :
            LET t == ComboVec_reserve(cv, additional)
            IN  /\ ComboVec_len(t) = ComboVec_len(cv)
                /\ ComboVec_stack_len(t) = ComboVec_stack_len(cv)
                /\ ComboVec_heap_len(t) = ComboVec_heap_len(cv)
                /\ ComboVec_spilled(t) = ComboVec_spilled(cv)
                /\ ComboVec_is_empty(t) = ComboVec_is_empty(cv)
                /\ \A i \in Indices : ComboVec_get(t, i) = ComboVec_get(cv, i)
                /\ ComboVec_iter(t) = ComboVec_iter(cv)
                /\ t.arr = cv.arr
                /\ ComboVec_heap_capacity(t) >= ComboVec_heap_capacity(cv)
                /\ ComboVec_heap_capacity(t) >= ComboVec_heap_len(cv) + additional

\* reserve has just made an allocation for a spilled ComboVec.
ReserveFrameWitness ==
    /\ CvLive /\ N > 0
    /\ op = "reserve" /\ arg > 0
    /\ ComboVec_spilled(cv)
    /\ ComboVec_heap_capacity(cv) >= ComboVec_heap_len(cv) + arg

\* spilled() says whether len() exceeds the inline capacity.
SpilledOk(self) == ComboVec_spilled(self) <=> ComboVec_len(self) > N

\* C32: spilled() is equivalent to len() > N in every reachable state of a
\* ComboVec<T, N>, the state a panic leaves included, and it is false again
\* as soon as pop, truncate, remove, swap_remove, resize or clear have
\* brought len() back to N or below.
SpilledIffOverN ==
    /\ kind = "ComboVec" => SpilledOk(cv)
    /\ CvLive => ENABLED CvIter
    /\ CvAfterIter /\ ComboVec_spilled(cv) =>
        /\ SpilledOk(ComboVec_pop(cv).self)
        /\ SpilledOk(ComboVec_clear(cv))
        /\ ~ComboVec_spilled(ComboVec_clear(cv))
        /\ \A len \in Lengths :
            LET t == ComboVec_truncate(cv, len).self
            IN  SpilledOk(t) /\ (len <= N => ~ComboVec_spilled(t))
        /\ \A index \in Indices :
            /\ SpilledOk(ComboVec_remove(cv, index).self)
            /\ SpilledOk(ComboVec_swap_remove(cv, index).self)
        /\ \A new_len \in Lengths, val \in Vals :
            LET t == ComboVec_resize(cv, new_len, val).self
            IN  SpilledOk(t) /\ (new_len <= N => ~ComboVec_spilled(t))

\* A ComboVec with one element in the overflow, which a pop, a remove or a
\* truncate to N takes back to an unspilled one with N elements.
SpilledIffOverNWitness ==
    /\ CvAfterIter /\ N > 0
    /\ ComboVec_spilled(cv)
    /\ ComboVec_len(cv) = N + 1
    /\ ComboVec_heap_capacity(cv) > 0
    /\ ~ComboVec_spilled(ComboVec_pop(cv).self)
    /\ ~ComboVec_spilled(ComboVec_remove(cv, 0).self)
    /\ ~ComboVec_spilled(ComboVec_truncate(cv, N).self)
    /\ ComboVec_len(ComboVec_pop(cv).self) = N

\* The call that gave r returned and left the inline array of cv, its
\* slots and its length, as they were.
InlineSame(r) ==
    /\ ~r.panic
    /\ r.self.arr = cv.arr
    /\ ComboVec_stack_len(r.self) = ComboVec_stack_len(cv)

\* C33: operations confined to the overflow leave the inline region
\* untouched. push when len() >= N, pop when spilled, truncate(new_len)
\* with new_len >= N, remove(index) and swap_remove(index) with
\* N <= index < len(), and resize to new_len >= N from a full inline
\* region leave every inline slot and stack_len() unchanged.
OverflowOnlyFrame ==
    /\ CvLive => ENABLED CvIter
    /\ CvAfterIter =>
        /\ ComboVec_len(cv) >= N =>
            \A val \in Vals : InlineSame(ComboVec_push(cv, val))
        /\ ComboVec_spilled(cv) => InlineSame(ComboVec_pop(cv))
        /\ \A new_len \in Lengths :
            new_len >= N => InlineSame(ComboVec_truncate(cv, new_len))
        /\ \A index \in Indices :
            N <= index /\ index < ComboVec_len(cv) =>
                /\ InlineSame(ComboVec_remove(cv, index))
                /\ InlineSame(ComboVec_swap_remove(cv, index))
        /\ ComboVec_stack_len(cv) = N =>
            \A new_len \in Lengths, val \in Vals :
                new_len >= N => InlineSame(ComboVec_resize(cv, new_len, val))

\* A spilled ComboVec with a non-empty inline region, on which a pop, a
\* remove and a swap_remove in the overflow and a truncate to N change the
\* overflow.
OverflowOnlyFrameWitness ==
    /\ CvAfterIter /\ N > 0
    /\ ComboVec_stack_len(cv) = N
    /\ ComboVec_heap_len(cv) = MaxHeap
    /\ ComboVec_pop(cv).self.vec # cv.vec
    /\ ComboVec_remove(cv, N).self.vec # cv.vec
    /\ ComboVec_swap_remove(cv, N).self.vec # cv.vec
    /\ ComboVec_truncate(cv, N).self.vec.buf = <<>>
    /\ ComboVec_resize(cv, N + 1, 1).self.vec # cv.vec

\* C34: ReArr::extend(seq) panics iff seq has more elements than the free
\* slots N - len(). When it panics it is not all-or-nothing: the first
\* N - len() elements of seq have been appended, so the array is full
\* (len() = N) with the prefix invariant intact. When it returns, all of seq
\* has been appended.
ReArrExtendPanics ==
    RaLive =>
        \A seq \in Seqs :
            LET r == ReArr_extend(ra, seq)
                free == N - ReArr_len(ra)
            IN  /\ r.panic <=> Len(seq) > free
                /\ PrefixShape(r.self)
                /\ r.panic =>
                    /\ ReArr_len(r.self) = N
                    /\ ReArr_iter(r.self) = ReArr_iter(ra) \o SubSeq(seq, 1, free)
                /\ ~r.panic =>
                    /\ ReArr_len(r.self) = ReArr_len(ra) + Len(seq)
                    /\ ReArr_iter(r.self) = ReArr_iter(ra) \o seq

\* A ReArr with one free slot: an extend by two elements stores the first
\* of them in the last slot and panics.
ReArrExtendPanicsWitness ==
    /\ RaLive /\ N >= 2
    /\ ReArr_len(ra) = N - 1
    /\ \E seq \in Seqs :
        LET r == ReArr_extend(ra, seq)
        IN  /\ Len(seq) = 2
            /\ r.panic
            /\ ReArr_len(r.self) = N
            /\ r.self.arr[N - 1] = seq[1]

\* C35: building a ReArr<T, N> from an iterator takes at most N items and
\* never fails. The result has len() = min(N, number of items) and holds
\* the first len() items in order; any further items are not stored, and
\* from_iter_ref leaves them in the iterator.
FromIterTakesN ==
    RaLive /\ op = "from_iter" =>
        /\ PrefixShape(ra)
        /\ \A iter \in Items :
            LET r == ReArr_from_iter(iter)
                t == r.self
                n == Min(N, Len(iter))
            IN  /\ ~r.panic
                /\ ReArr_len(t) = n
                /\ PrefixShape(t)
                /\ \A i \in 0..N :
                    ReArr_get(t, i) = IF i < n THEN iter[i + 1] ELSE None
                /\ ReArr_iter(t) = SubSeq(iter, 1, n)
                /\ r.iter = SubSeq(iter, n + 1, Len(iter))

\* A ReArr collected from an iterator of N + 1 items: it is full.
FromIterTakesNWitness ==
    /\ RaLive /\ op = "from_iter"
    /\ N >= 1
    /\ ReArr_len(ra) = N
    /\ \E iter \in Items :
        /\ Len(iter) = N + 1
        /\ ra = ReArr_from_iter(iter).self
        /\ ReArr_from_iter(iter).iter = <<iter[N + 1]>>

\* A call on a ComboVec<T, 0> that returned, leaving a ComboVec with no
\* inline element that holds the list s.
ListLeft(r, s) ==
    /\ ~r.panic
    /\ ComboVec_stack_len(r.self) = 0
    /\ r.self.arr = ReArr_new
    /\ ComboVec_iter(r.self) = s

\* C36: with N = 0 the hybrid degenerates to its overflow buffer. For a
\* ComboVec<T, 0>, every push, pop, get, first, last, truncate, clear,
\* remove, swap_remove, resize and resize_with behaves exactly as the same
\* operation on a plain growable list, stack_len() is always 0, and no
\* operation fails that would succeed on the plain list.
ZeroIsPlainList ==
    CvLive /\ N = 0 =>
        LET s == list
            n == Len(list)
        IN  /\ ComboVec_stack_len(cv) = 0
            /\ ComboVec_iter(cv) = s
            /\ ComboVec_len(cv) = n
            /\ \A val \in Vals : ListLeft(ComboVec_push(cv, val), Append(s, val))
            /\ LET r == ComboVec_pop(cv)
               IN  IF n = 0 THEN ListLeft(r, s) /\ r.ret = None
                   ELSE ListLeft(r, SubSeq(s, 1, n - 1)) /\ r.ret = s[n]
            /\ \A idx \in Indices :
                ComboVec_get(cv, idx) = IF idx < n THEN s[idx + 1] ELSE None
            /\ ComboVec_first(cv) = IF n = 0 THEN None ELSE s[1]
            /\ ComboVec_last(cv) = IF n = 0 THEN None ELSE s[n]
            /\ \A len \in Lengths :
                ListLeft(ComboVec_truncate(cv, len), ListTruncate(s, len))
            /\ ListLeft(Res(ComboVec_clear(cv), None, FALSE), <<>>)
            /\ \A index \in Indices :
                LET r == ComboVec_remove(cv, index)
                    w == ComboVec_swap_remove(cv, index)
                IN  /\ r.panic <=> index >= n
                    /\ w.panic <=> index >= n
                    /\ index >= n => r.self = cv /\ w.self = cv
                    /\ index < n =>
                        /\ ListLeft(r, RemoveAt(s, index))
                        /\ r.ret = s[index + 1]
                        /\ ListLeft(w, SwapRemoveAt(s, index))
                        /\ w.ret = s[index + 1]
            /\ \A new_len \in Lengths :
                /\ \A val \in Vals :
                    ListLeft(ComboVec_resize(cv, new_len, val),
                             ListResize(s, new_len, val))
                /\ \A p \in Producers :
                    LET r == ComboVec_resize_with(cv, new_len, p, 0)
                    IN  /\ ListLeft(r, [i \in 1..new_len |->
                                IF i <= n THEN s[i] ELSE Call(p, i - n - 1)])
                        /\ r.calls = Max(0, new_len - n)

\* A ComboVec<T, 0> holding as many elements as the run allows, after a
\* remove.
ZeroIsPlainListWitness ==
    /\ CvLive /\ N = 0
    /\ op = "remove"
    /\ Len(list) = MaxHeap - 1
    /\ ComboVec_heap_len(cv) = MaxHeap - 1
    /\ ComboVec_first(cv) # None

\* The number len is the index of the first None of the array a, or N if
\* a has none.
IsFirstNone(a, len) ==
    /\ len \in 0..N
    /\ \A i \in 0..(len - 1) : a[i] # None
    /\ len < N => a[len] = None

\* No Some follows a None in the array a.
NoSomeAfterNone(a) ==
    \A i, j \in 0..N-1 : i < j /\ a[i] = None => a[j] = None

\* C37: from_arr_and_len(arr) sets len() to the index of the first None in
\* arr (N if there is none) for any input array, and copies all N slots as
\* given; the result satisfies the inline prefix invariant exactly when no
\* Some follows a None in arr. ComboVec::from_arr_and_len does the same for
\* its inline array and starts with an empty overflow.
FromArrAndLen ==
    kind = "FromArr" /\ op = "from_arr_and_len" =>
        /\ ra.arr = GivenArr
        /\ IsFirstNone(GivenArr, ReArr_len(ra))
        /\ PrefixShape(ra) <=> NoSomeAfterNone(GivenArr)
        /\ cv.arr = ra
        /\ cv.vec = Vec_new
        /\ ComboVec_len(cv) = ReArr_len(ra)
        /\ ComboVec_stack_len(cv) = ReArr_len(ra)
        /\ \A a \in AnyArrays :
            LET r == ReArr_from_arr_and_len(a)
                c == ComboVec_from_arr_and_len(a)
            IN  /\ r.arr = a
                /\ IsFirstNone(a, ReArr_len(r))
                /\ PrefixShape(r) <=> NoSomeAfterNone(a)
                /\ c.arr = r
                /\ ComboVec_len(c) = ReArr_len(r)

\* from_arr_and_len was given an array with a None in its first slot and a
\* Some in its last: len() is 0 and a slot beyond it is occupied.
FromArrAndLenWitness ==
    /\ kind = "FromArr" /\ op = "from_arr_and_len"
    /\ N >= 2
    /\ GivenArr[0] = None /\ GivenArr[N - 1] # None
    /\ ReArr_len(ra) = 0
    /\ ComboVec_len(cv) = 0
    /\ ra.arr[N - 1] # None
    /\ ~PrefixShape(ra)

====
